---- MODULE Spec2Model ----
(***************************************************************************)
(* TrustCheck: the trust-scoring pipeline (lib/trustAnalysis.ts,           *)
(* lib/geminiAnalysis.ts), the flagged-sites store (lib/flaggedSites.ts)   *)
(* and the analyze endpoint (app/api/analyze/route.ts).                    *)
(*                                                                         *)
(* Conventions.  A nullable value is a sequence of length 0 (null) or 1.   *)
(* A hostname is its sequence of labels, <<"www","github","com">>.  A URL  *)
(* is [protocol, host].  A homepage body is the set of needle terms that   *)
(* occur in its visible text plus the set that occurs only inside script   *)
(* or style blocks.  A raw AI score is kept in halves (score2 = 2*score)   *)
(* so that Math.round has something to round.                              *)
(***************************************************************************)
EXTENDS Integers, Sequences, FiniteSets, TLC

VARIABLES
    plStage,      \* position of one analyzeWebsite call: start/aged/fetched/done/threw
    plUrl,        \* its rawUrl, already validated by the endpoint
    plAge,        \* ageDays as returned by getDomainAgeDays
    plFetch,      \* what fetchHomepageSignals returned
    plRaw,        \* what the completion call gave analyzeWithAI
    plAi,         \* what analyzeWithAI returned
    plHeuristic,  \* the local `score` just before mergeScores
    plResult,     \* what analyzeWebsite returned
    cfg,          \* the process environment: ENABLE_CACHE, MONGODB_URI, PYTHON_AGENT_URL
    now,          \* Date.now()
    memoryCache,  \* route.ts memoryCache: cache key -> record
    dbAnalyses,   \* the "analyses" collection
    flaggedFallback, \* global.__trustcheckFlaggedFallback: hostname -> record
    dbFlagged,    \* the "flagged_sites" collection, by hostname
    served,       \* POST requests handled so far
    last,         \* how the latest POST ended, and its response
    upserts,      \* history: per hostname, the docs upsertFlaggedFromAnalysis built
    rlConfig,     \* the RateLimitConfig one scope passes to checkIpRateLimit
    rlNow,        \* Date.now(), in ms, as the rate limiter reads it
    rlTicks,      \* how often that clock has moved
    rlStore,      \* global.__trustcheckIpBuckets: key -> bucket (tokens in millionths)
    rlLog,        \* history: per key, the checks made and their results
    nuStage,      \* the page's runAnalysis: typed / once / twice / refused
    nuRaw,        \* the text in the URL field
    nuOnce,       \* normalizeUrlInput(nuRaw)
    nuTwice,      \* normalizeUrlInput of that result
    dlTimeoutMs,  \* the request's timeoutMs after the route's clamp, or null
    dlLatency,    \* how long each remote party takes to answer (null: never)
    dlStage,      \* what the local pipeline is awaiting: age/fetch/ai/done
    dlHopsLeft,   \* redirects the homepage still answers with
    dlElapsed,    \* ms since the request arrived
    dlSince,      \* dlElapsed when the pending await began
    hfStage,      \* fetchHomepageSignals: walking/reading, or how it returned
    hfUrl,        \* its normalizedUrl
    hfCurrent,    \* currentUrl
    hfLeft,       \* maxRedirects
    hfChain,      \* redirectChain
    hfStatus,     \* httpStatus
    hfHeaders,    \* headers: the names collected
    hfAsked,      \* history: the URLs requested, in order
    hfResult,     \* what it returned, or null
    ccPc,         \* per simultaneous request: the await it has reached
    ccConfig,     \* the RateLimitConfig of the route they call
    ccStore,      \* global.__trustcheckIpBuckets
    ccCache,      \* memoryCache
    ccFlagged,    \* global.__trustcheckFlaggedFallback
    ccChecked,    \* per request: what checkIpRateLimit returned, or null
    ccSeen,       \* per request: what memoryCache.get returned
    ccDoc,        \* per request: the doc its upsertFlaggedFromAnalysis built
    ccSnap,       \* per request: the fallback store as it was at its await
    ssStore,      \* global.__trustcheckScreenshotStore, in the Map's insertion order
    ssBytes,      \* global.__trustcheckScreenshotStoreBytes
    ssNow,        \* Date.now(), in ms, as the screenshot store reads it
    ssSeq,        \* how many ids and touches have been handed out, plus one
    ssUsed,       \* history: per id, when it was last inserted or touched
    ssLast,       \* history: the latest call and what it returned
    ssOps         \* how many steps the store has been followed for

plVars == <<plStage, plUrl, plAge, plFetch, plRaw, plAi, plHeuristic, plResult>>

epVars == <<cfg, now, memoryCache, dbAnalyses, flaggedFallback, dbFlagged, served, last,
            upserts>>

rlVars == <<rlConfig, rlNow, rlTicks, rlStore, rlLog>>

nuVars == <<nuStage, nuRaw, nuOnce, nuTwice>>

dlVars == <<dlTimeoutMs, dlLatency, dlStage, dlHopsLeft, dlElapsed, dlSince>>

coreVars == <<plVars, epVars, rlVars, nuVars>>

hfVars == <<hfStage, hfUrl, hfCurrent, hfLeft, hfChain, hfStatus, hfHeaders, hfAsked, hfResult>>

ccVars == <<ccPc, ccConfig, ccStore, ccCache, ccFlagged, ccChecked, ccSeen, ccDoc, ccSnap>>

ssVars == <<ssStore, ssBytes, ssNow, ssSeq, ssUsed, ssLast, ssOps>>

xVars == <<dlVars, hfVars, ccVars, ssVars>>

vars == <<coreVars, xVars>>

\* What a step of one component leaves alone.
plOthers == <<epVars, rlVars, nuVars, xVars>>

epOthers == <<plVars, rlVars, nuVars, xVars>>

rlOthers == <<plVars, epVars, nuVars, xVars>>

nuOthers == <<plVars, epVars, rlVars, xVars>>

dlOthers == <<coreVars, hfVars, ccVars, ssVars>>

hfOthers == <<coreVars, dlVars, ccVars, ssVars>>

ccOthers == <<coreVars, dlVars, hfVars, ssVars>>

ssOthers == <<coreVars, dlVars, hfVars, ccVars>>

----------------------------------------------------------------------------
(* Nullable values *)

Null == <<>>

Some(x) == <<x>>

IsNull(v) == Len(v) = 0

Val(v) == v[1]

Max(a, b) == IF a >= b THEN a ELSE b

Min(a, b) == IF a <= b THEN a ELSE b

----------------------------------------------------------------------------
(* Bounds of the model *)

\* Raw AI scores range over [-RawSlack, 100 + RawSlack] (sampled, in halves).
RawSlack == 30

----------------------------------------------------------------------------
(* lib/trustAnalysis.ts: pure helpers *)

\* Math.round on a value given in halves: floor(x + 0.5).
MathRound2(x2) == (x2 + 1) \div 2

\* Math.round on a value given in quarters.
MathRound4(x4) == (x4 + 2) \div 4

\* Variant of clampScore with the upper limit at 101.
ClampScoreOffByOne(score) == Max(0, Min(101, score))

\* clampScore; every caller passes an integer, so Math.round is the identity here.
ClampScore(score) == Max(0, Min(100, score))

\* Variant of statusForScore with the Low Risk threshold at 74.
StatusLowRiskAt74(score) ==
    IF score >= 74 THEN "Low Risk"
    ELSE IF score >= 45 THEN "Proceed with Caution"
    ELSE "High Risk Indicators Detected"

StatusForScore(score) ==
    IF score >= 75 THEN "Low Risk"
    ELSE IF score >= 45 THEN "Proceed with Caution"
    ELSE "High Risk Indicators Detected"

\* hostname.split(".").filter(Boolean); <= 2 parts: the hostname itself, else the last two.
RegistrableDomainGuess(host) ==
    IF Len(host) <= 2 THEN host ELSE SubSeq(host, Len(host) - 1, Len(host))

\* The entries of WELL_KNOWN_DOMAINS that the model's hostnames can hit.
WELL_KNOWN_DOMAINS == { <<"github", "com">>, <<"x", "com">> }

IsWellKnownDomain(host) == RegistrableDomainGuess(host) \in WELL_KNOWN_DOMAINS

BusinessNeedles ==
    {"about", "contact", "company", "who we are", "privacy", "terms",
     "refund", "returns", "shipping", "support"}

MedicalNeedles ==
    {"cure", "treat", "diagnose", "remedy", "miracle", "fda", "clinical",
     "disease", "weight loss", "supplement"}

SupportNeedles ==
    {"support", "help", "contact", "returns", "refund", "shipping", "email", "phone"}

\* countAny / hasAny over the text left after the script and style blocks are removed.
CountAny(text, needles) == Cardinality(text \cap needles)

HasAny(text, needles) == (text \cap needles) # {}

----------------------------------------------------------------------------
(* lib/trustAnalysis.ts: the verdicts of analyzeWebsite *)

HttpProtocols == {"https:", "http:"}

\* A homepage body.  htmlText is truthy exactly when kind = "text".
HtmlTruthy(html) == html.kind = "text"

\* htmlText with the <script> and <style> blocks replaced by a blank.
StripScriptAndStyle(html) == html.visible

\* `text` of analyzeWebsite: the stripped body, "" without a body.
TextOf(html) == IF HtmlTruthy(html) THEN StripScriptAndStyle(html) ELSE {}

\* The verdict of the "https" item after the redirect correction (lines 256, 296-306).
HttpsVerdict(urlProtocol, finalProtocol) ==
    LET first == IF urlProtocol = "https:" THEN "good" ELSE "warn"
    IN  IF finalProtocol # urlProtocol
        THEN (IF finalProtocol = "https:" THEN "good" ELSE "warn")
        ELSE first

DomainVerdict(ageDays) ==
    IF IsNull(ageDays) THEN "unknown"
    ELSE IF Val(ageDays) >= 365 THEN "good"
    ELSE IF Val(ageDays) >= 90 THEN "warn"
    ELSE "bad"

\* Variant of the business-info verdict that asks for 4 terms.
BusinessVerdictFourIsGood(html) ==
    LET businessCount == CountAny(TextOf(html), BusinessNeedles)
    IN  IF ~HtmlTruthy(html) THEN "unknown"
        ELSE IF businessCount > 3 THEN "good"
        ELSE IF businessCount >= 1 THEN "warn"
        ELSE "bad"

BusinessVerdict(html) ==
    LET businessCount == CountAny(TextOf(html), BusinessNeedles)
    IN  IF ~HtmlTruthy(html) THEN "unknown"
        ELSE IF businessCount >= 3 THEN "good"
        ELSE IF businessCount >= 1 THEN "warn"
        ELSE "bad"

MedicalVerdict(html) ==
    IF ~HtmlTruthy(html) THEN "unknown"
    ELSE IF HasAny(TextOf(html), MedicalNeedles) THEN "warn"
    ELSE "good"

SupportVerdict(html) ==
    IF ~HtmlTruthy(html) THEN "unknown"
    ELSE IF HasAny(TextOf(html), SupportNeedles) THEN "good"
    ELSE "warn"

\* weights[v] of the five add(...) calls.
HttpsWeight(v) ==
    CASE v = "good" -> 12 [] v = "warn" -> -10 [] v = "bad" -> -15 [] OTHER -> 0

DomainWeight(v, isWellKnown) ==
    CASE v = "good" -> 15 [] v = "warn" -> 5 [] v = "bad" -> -12
      [] OTHER -> IF isWellKnown THEN 10 ELSE 0

BusinessWeight(v, isWellKnown) ==
    CASE v = "good" -> 12 [] v = "warn" -> 3 [] v = "bad" -> -8
      [] OTHER -> IF isWellKnown THEN 10 ELSE 0

MedicalWeight(v, isWellKnown) ==
    CASE v = "good" -> 5 [] v = "warn" -> -8 [] v = "bad" -> -8
      [] OTHER -> IF isWellKnown THEN 3 ELSE 0

SupportWeight(v, isWellKnown) ==
    CASE v = "good" -> 10 [] v = "warn" -> 2 [] v = "bad" -> -6
      [] OTHER -> IF isWellKnown THEN 8 ELSE 0

\* The three response headers that score.
ScoringHeaders ==
    {"strict-transport-security", "content-security-policy", "x-frame-options"}

HeaderBonus(headers) ==
    (IF "strict-transport-security" \in headers THEN 3 ELSE 0)
    + (IF "content-security-policy" \in headers THEN 2 ELSE 0)
    + (IF "x-frame-options" \in headers THEN 2 ELSE 0)

\* The local `score` of analyzeWebsite when it reaches mergeScores (lines 434-477).
HeuristicScore(httpsV, domainV, businessV, medicalV, supportV, isWellKnown, headers) ==
    50
    + HttpsWeight(httpsV)
    + DomainWeight(domainV, isWellKnown)
    + BusinessWeight(businessV, isWellKnown)
    + MedicalWeight(medicalV, isWellKnown)
    + SupportWeight(supportV, isWellKnown)
    + (IF isWellKnown THEN 15 ELSE 0)
    + HeaderBonus(headers)

----------------------------------------------------------------------------
(* lib/geminiAnalysis.ts *)

\* compactList(values, limit): blank entries dropped, at most `limit` kept.
RECURSIVE CompactList(_, _)
CompactList(values, limit) ==
    IF values = <<>> \/ limit = 0 THEN <<>>
    ELSE IF Head(values) = "" THEN CompactList(Tail(values), limit)
    ELSE <<Head(values)>> \o CompactList(Tail(values), limit - 1)

\* Math.max(0, Math.min(100, Math.round(result.aiScore)))
ClampAiScore(score2) == Max(0, Min(100, MathRound2(score2)))

\* Variant of limitedData that needs both the HTML and the age to be missing.
LimitedDataOnlyWithoutBoth(data) ==
    ~data.isWellKnown /\ (~HtmlTruthy(data.htmlContent) /\ IsNull(data.domainAgeDays))

\* !data.isWellKnown && (!data.htmlContent || data.domainAgeDays == null)
LimitedData(data) ==
    ~data.isWellKnown /\ (~HtmlTruthy(data.htmlContent) \/ IsNull(data.domainAgeDays))

\* Variant of analyzeWithAI whose guardrail caps at 75.
AnalyzeWithAICapsAt75(data, raw) ==
    IF raw.outcome # "json" THEN Null
    ELSE IF ~raw.assessmentIsString \/ ~raw.scoreIsNumber \/ ~raw.positiveIsArray
    THEN Null
    ELSE Some([aiScore |-> IF LimitedData(data)
                            THEN Min(ClampAiScore(raw.score2), 75)
                            ELSE ClampAiScore(raw.score2),
               confidenceLevel |-> IF LimitedData(data) /\ raw.confidenceLevel = "high"
                                    THEN "medium" ELSE raw.confidenceLevel,
               riskFactors |-> raw.riskFactors,
               negative |-> raw.negative])

\* analyzeWithAI.  raw.outcome: "no_key" (GEMINI_API_KEY unset), "threw" (the call
\* failed), "empty" (no text), "bad_json" (JSON.parse threw), "json" (an object).
AnalyzeWithAI(data, raw) ==
    IF raw.outcome # "json" THEN Null
    ELSE IF ~raw.assessmentIsString \/ ~raw.scoreIsNumber \/ ~raw.positiveIsArray
    THEN Null
    ELSE Some([aiScore |-> IF LimitedData(data)
                            THEN Min(ClampAiScore(raw.score2), 65)
                            ELSE ClampAiScore(raw.score2),
               confidenceLevel |-> IF LimitedData(data) /\ raw.confidenceLevel = "high"
                                    THEN "medium" ELSE raw.confidenceLevel,
               riskFactors |-> raw.riskFactors,
               negative |-> raw.negative])

\* Variant of mergeScores that blends a high-confidence score 25/75.
MergeScoresBlendsHigh(heuristicScore, aiResult) ==
    IF IsNull(aiResult) THEN heuristicScore
    ELSE Max(0, Min(100, MathRound4(heuristicScore + 3 * Val(aiResult).aiScore)))

\* Variant of mergeScores with the medium and low weights exchanged.
MergeScoresSwapsWeights(heuristicScore, aiResult) ==
    IF IsNull(aiResult) THEN heuristicScore
    ELSE IF Val(aiResult).confidenceLevel = "high" THEN Val(aiResult).aiScore
    ELSE LET merged == IF Val(aiResult).confidenceLevel = "medium"
                       THEN MathRound2(heuristicScore + Val(aiResult).aiScore)
                       ELSE MathRound4(heuristicScore + 3 * Val(aiResult).aiScore)
         IN  Max(0, Min(100, merged))

\* mergeScores.  weightAI is 0.75 or 0.5, so the blend is exact in quarters or halves.
MergeScores(heuristicScore, aiResult) ==
    IF IsNull(aiResult) THEN heuristicScore
    ELSE IF Val(aiResult).confidenceLevel = "high" THEN Val(aiResult).aiScore
    ELSE LET merged == IF Val(aiResult).confidenceLevel = "medium"
                       THEN MathRound4(heuristicScore + 3 * Val(aiResult).aiScore)
                       ELSE MathRound2(heuristicScore + Val(aiResult).aiScore)
         IN  Max(0, Min(100, merged))

----------------------------------------------------------------------------
(* lib/trustAnalysis.ts: analyzeWebsite *)

\* The websiteData handed to analyzeWithAI (the fields the guardrail reads).
WebsiteDataOf(url, ageDays, fetched) ==
    [hostname |-> url.host,
     protocol |-> url.protocol,
     htmlContent |-> fetched.htmlText,
     domainAgeDays |-> ageDays,
     isWellKnown |-> IsWellKnownDomain(url.host),
     headers |-> fetched.headers]

\* The verdict of the "aiAnalysis" explainability item (lines 419-424).
AiItemVerdict(ai) ==
    IF ai.confidenceLevel = "high"
    THEN (IF ai.aiScore >= 75 THEN "good" ELSE IF ai.aiScore >= 45 THEN "warn" ELSE "bad")
    ELSE IF ai.confidenceLevel = "medium"
    THEN (IF ai.aiScore >= 70 THEN "good" ELSE IF ai.aiScore >= 40 THEN "warn" ELSE "bad")
    ELSE "unknown"

Item(key, verdict) == [key |-> key, verdict |-> verdict]

\* The explainability list in the order analyzeWebsite pushes it.
ExplainabilityOf(url, ageDays, fetched, aiResult) ==
    <<Item("https", HttpsVerdict(url.protocol, fetched.finalUrl.protocol)),
      Item("domainAge", DomainVerdict(ageDays)),
      Item("businessInfo", BusinessVerdict(fetched.htmlText)),
      Item("medicalClaims", MedicalVerdict(fetched.htmlText)),
      Item("customerSupport", SupportVerdict(fetched.htmlText))>>
    \o (IF IsWellKnownDomain(url.host) THEN <<Item("establishedBrand", "good")>> ELSE <<>>)
    \o (IF IsNull(aiResult) THEN <<>> ELSE <<Item("aiAnalysis", AiItemVerdict(Val(aiResult)))>>)

\* `score` of analyzeWebsite just before mergeScores.
HeuristicOf(url, ageDays, fetched) ==
    HeuristicScore(HttpsVerdict(url.protocol, fetched.finalUrl.protocol),
                   DomainVerdict(ageDays),
                   BusinessVerdict(fetched.htmlText),
                   MedicalVerdict(fetched.htmlText),
                   SupportVerdict(fetched.htmlText),
                   IsWellKnownDomain(url.host),
                   fetched.headers)

\* analyzeWebsite, given what its three awaited calls returned.  Null: it threw
\* (normalizeUrl(finalUrl) rejects a final URL that is not http(s)).
AnalyzeWebsite(url, ageDays, fetched, raw, nowMs) ==
    LET aiResult == AnalyzeWithAI(WebsiteDataOf(url, ageDays, fetched), raw)
        finalScore == ClampScore(MergeScores(HeuristicOf(url, ageDays, fetched), aiResult))
    IN  IF fetched.finalUrl.protocol \notin HttpProtocols THEN Null
        ELSE Some([normalizedUrl |-> fetched.finalUrl,
                   score |-> finalScore,
                   status |-> StatusForScore(finalScore),
                   explainability |-> ExplainabilityOf(url, ageDays, fetched, aiResult),
                   aiAnalysis |-> aiResult,
                   analyzedAtMs |-> nowMs,
                   cacheKey |-> url.host])

----------------------------------------------------------------------------
(* Inputs of the pipeline: what the request and the three awaited calls can be *)

\* Hostnames of the analysed sites: one of a well-known domain, one not.
PlHosts == { <<"www", "github", "com">>, <<"newshop", "biz">> }

\* Needle terms a modelled page may show, and the one it may hold only in a script.
Vocabulary == {"about", "company", "privacy", "help", "cure"}

ScriptVocabulary == {"privacy"}

NoHtml == [kind |-> "null", visible |-> {}, scripted |-> {}]

EmptyHtml == [kind |-> "empty", visible |-> {}, scripted |-> {}]

TextPages ==
    UNION {{[kind |-> "text", visible |-> v, scripted |-> s] :
                s \in SUBSET (ScriptVocabulary \ v)} : v \in SUBSET Vocabulary}

\* getDomainAgeDays: null, or whole days >= 0 (sampled at the two thresholds).
AgeSamples == {Null} \cup {Some(d) : d \in {89, 90, 364, 365}}

\* fetchHomepageSignals, by the way it returned: the catch block, the hop limit
\* (any Location target), a body that is not text/html, an html body.
FetchOutcomes(url, hosts) ==
    {[finalUrl |-> url, htmlText |-> NoHtml, headers |-> {}]}
    \cup {[finalUrl |-> [protocol |-> p, host |-> h], htmlText |-> NoHtml, headers |-> hs] :
            p \in HttpProtocols \cup {"ftp:"}, h \in hosts, hs \in SUBSET ScoringHeaders}
    \cup {[finalUrl |-> [protocol |-> p, host |-> h], htmlText |-> page, headers |-> hs] :
            p \in HttpProtocols, h \in hosts, hs \in SUBSET ScoringHeaders,
            page \in {EmptyHtml} \cup TextPages}

\* Raw AI scores, in halves: below 0, 44.5, 64.5, 66, 75, above 100.
RawScore2Samples == {0 - 2 * RawSlack, 89, 129, 132, 150, 2 * (100 + RawSlack)}

ConfidenceValues == {"high", "medium", "low", "absent"}

NoIssues == <<>>

RawFailure(outcome) ==
    [outcome |-> outcome, assessmentIsString |-> TRUE, scoreIsNumber |-> TRUE,
     positiveIsArray |-> TRUE, score2 |-> 0, confidenceLevel |-> "absent",
     riskFactors |-> NoIssues, negative |-> NoIssues]

\* What the completion call can give back; issueLists bounds the two issue lists.
RawAiResponses(issueLists) ==
    {RawFailure(o) : o \in {"no_key", "threw", "empty", "bad_json"}}
    \cup {[RawFailure("json") EXCEPT !.assessmentIsString = FALSE],
          [RawFailure("json") EXCEPT !.scoreIsNumber = FALSE],
          [RawFailure("json") EXCEPT !.positiveIsArray = FALSE]}
    \cup {[outcome |-> "json", assessmentIsString |-> TRUE, scoreIsNumber |-> TRUE,
           positiveIsArray |-> TRUE, score2 |-> s2, confidenceLevel |-> c,
           riskFactors |-> r, negative |-> g] :
            s2 \in RawScore2Samples, c \in ConfidenceValues,
            r \in issueLists, g \in issueLists}

\* Hostnames that requests, redirects and agent replies name.
Hostnames == { <<"newshop", "biz">>, <<"x", "com">> }

\* A string that new URL() rejects, and the empty string.
BadUrl == [protocol |-> "?", host |-> <<>>]

BlankUrl == [protocol |-> "", host |-> <<>>]

\* Before the first request.
\* The request of an outcome that answers none.
NoRequest == [body |-> "unparseable", url |-> BlankUrl, force |-> FALSE]

NoOutcome ==
    [kind |-> "none", path |-> "none", response |-> Null, atMs |-> 0, error |-> "",
     request |-> NoRequest, calls |-> {}]

----------------------------------------------------------------------------
(* One run of analyzeWebsite, a step per awaited call *)

\* The clients the rate limiter is followed for: one with a resolvable IP and
\* the requests without one (null from getClientIp).
RlClients == {Some("203.0.113.7"), Null}

\* The rate limiter before any check, with a configuration no route uses.
\* The page's URL field while another component is followed.
NuAtRest ==
    /\ nuStage = "unused"
    /\ nuRaw = <<>>
    /\ nuOnce = <<>>
    /\ nuTwice = <<>>

RlAtRest ==
    /\ rlConfig = [scope |-> "none", capacity2 |-> 2, refillMilli |-> 0]
    /\ rlNow = 0
    /\ rlTicks = 0
    /\ rlStore = <<>>
    /\ rlLog = [c \in RlClients |-> <<>>]

\* No pipeline run under way.
PlAtRest ==
    /\ plStage = "unused"
    /\ plUrl = [protocol |-> "https:", host |-> <<"newshop", "biz">>]
    /\ plAge = Null
    /\ plFetch = [finalUrl |-> plUrl, htmlText |-> NoHtml, headers |-> {}]
    /\ plRaw = RawFailure("no_key")
    /\ plAi = Null
    /\ plHeuristic = 0
    /\ plResult = Null

\* The endpoint at rest, while one pipeline run is looked at on its own.
EpAtRest ==
    /\ cfg = [enableCache |-> FALSE, mongo |-> "unset", agent |-> FALSE]
    /\ now = 0
    /\ memoryCache = [k \in Hostnames |-> Null]
    /\ dbAnalyses = {}
    /\ flaggedFallback = [h \in Hostnames |-> Null]
    /\ dbFlagged = [h \in Hostnames |-> Null]
    /\ served = 0
    /\ last = NoOutcome
    /\ upserts = [h \in Hostnames |-> <<>>]

\* No request timed.
DlAtRest ==
    /\ dlTimeoutMs = Null
    /\ dlLatency = [age |-> Null, fetch |-> Null, ai |-> Null]
    /\ dlStage = "unused"
    /\ dlHopsLeft = 0
    /\ dlElapsed = 0
    /\ dlSince = 0

CoreAtRest == PlAtRest /\ EpAtRest /\ RlAtRest /\ NuAtRest

\* No redirect walk followed.
HfAtRest ==
    /\ hfStage = "unused"
    /\ hfUrl = "a"
    /\ hfCurrent = "a"
    /\ hfLeft = 0
    /\ hfChain = <<>>
    /\ hfStatus = Null
    /\ hfHeaders = {}
    /\ hfAsked = <<>>
    /\ hfResult = Null

\* No simultaneous requests followed.
CcAtRest ==
    /\ ccPc = <<>>
    /\ ccConfig = [scope |-> "none", capacity2 |-> 2, refillMilli |-> 0]
    /\ ccStore = <<>>
    /\ ccCache = [k \in Hostnames |-> Null]
    /\ ccFlagged = [h \in Hostnames |-> Null]
    /\ ccChecked = <<>>
    /\ ccSeen = <<>>
    /\ ccDoc = <<>>
    /\ ccSnap = <<>>

\* The screenshot store untouched.
SsAtRest ==
    /\ ssStore = <<>>
    /\ ssBytes = 0
    /\ ssNow = 0
    /\ ssSeq = 1
    /\ ssUsed = <<>>
    /\ ssLast = [op |-> "none", atMs |-> 0, result |-> Null]
    /\ ssOps = 0

XAtRest == DlAtRest /\ HfAtRest /\ CcAtRest /\ SsAtRest

PlInit ==
    /\ XAtRest
    /\ EpAtRest
    /\ RlAtRest
    /\ NuAtRest
    /\ plStage = "start"
    /\ plUrl \in [protocol : HttpProtocols, host : PlHosts]
    /\ plAge = Null
    /\ plFetch = [finalUrl |-> plUrl, htmlText |-> NoHtml, headers |-> {}]
    /\ plRaw = RawFailure("no_key")
    /\ plAi = Null
    /\ plHeuristic = 0
    /\ plResult = Null

\* await getDomainAgeDays(hostname)
ResolveDomainAge ==
    /\ plStage = "start"
    /\ plAge' \in AgeSamples
    /\ plStage' = "aged"
    /\ UNCHANGED <<plUrl, plFetch, plRaw, plAi, plHeuristic, plResult>>
    /\ UNCHANGED plOthers

\* await fetchHomepageSignals(normalizedUrl)
FetchHomepage ==
    /\ plStage = "aged"
    /\ plFetch' \in FetchOutcomes(plUrl, {plUrl.host})
    /\ plStage' = "fetched"
    /\ UNCHANGED <<plUrl, plAge, plRaw, plAi, plHeuristic, plResult>>
    /\ UNCHANGED plOthers

\* await analyzeWithAI(websiteData), the scoring and the return
JudgeAndScore ==
    /\ plStage = "fetched"
    /\ \E raw \in RawAiResponses({NoIssues}) :
        /\ plRaw' = raw
        /\ plAi' = AnalyzeWithAI(WebsiteDataOf(plUrl, plAge, plFetch), raw)
        /\ plHeuristic' = HeuristicOf(plUrl, plAge, plFetch)
        /\ plResult' = AnalyzeWebsite(plUrl, plAge, plFetch, raw, 0)
        /\ plStage' = IF IsNull(plResult') THEN "threw" ELSE "done"
    /\ UNCHANGED <<plUrl, plAge, plFetch>>
    /\ UNCHANGED plOthers

PlNext == ResolveDomainAge \/ FetchHomepage \/ JudgeAndScore

SpecPipeline == PlInit /\ [][PlNext]_vars

----------------------------------------------------------------------------
(* lib/flaggedSites.ts *)

\* What the endpoint reports when no agent took part: { agent: "node" }.
NodeSignals ==
    [agent |-> "node", domainAgeDays |-> Null, aiJudgment |-> Null, screenshot |-> Null]

FlaggedVerdicts == {"suspicious", "likely_deceptive"}

\* Variant of isFlaggedAnalysis that flags every score up to 100.
IsFlaggedAnalysisAnyScore(r) ==
    LET scoreFlag == r.score < 101
        statusFlag == r.status = "High Risk Indicators Detected"
        judgment == r.agentSignals.aiJudgment
        aiFlag == ~IsNull(judgment) /\ Val(judgment).verdict \in FlaggedVerdicts
    IN  scoreFlag \/ statusFlag \/ aiFlag

\* isFlaggedAnalysis
IsFlaggedAnalysis(r) ==
    LET scoreFlag == r.score < 45
        statusFlag == r.status = "High Risk Indicators Detected"
        judgment == r.agentSignals.aiJudgment
        aiFlag == ~IsNull(judgment) /\ Val(judgment).verdict \in FlaggedVerdicts
    IN  scoreFlag \/ statusFlag \/ aiFlag

\* safeHostname: null when new URL() throws
SafeHostname(url) == IF url.host = <<>> THEN Null ELSE Some(url.host)

\* The first `n` entries of a list: Array.prototype.slice(0, n).
RECURSIVE SliceFirst(_, _)
SliceFirst(list, n) ==
    IF list = <<>> \/ n = 0 THEN <<>>
    ELSE <<Head(list)>> \o SliceFirst(Tail(list), n - 1)

\* explainability.filter(i => i.verdict === "bad" || i.verdict === "warn")
RECURSIVE WarnOrBadItems(_)
WarnOrBadItems(list) ==
    IF list = <<>> THEN <<>>
    ELSE (IF Head(list).verdict \in {"bad", "warn"} THEN <<Head(list)>> ELSE <<>>)
         \o WarnOrBadItems(Tail(list))

\* buildFlaggedDoc: `issues`
FlaggedIssues(analysis) ==
    LET judgment == analysis.agentSignals.aiJudgment
        ai == analysis.aiAnalysis
    IN  IF ~IsNull(judgment) /\ Len(Val(judgment).detectedIssues) > 0
        THEN CompactList(Val(judgment).detectedIssues, 10)
        ELSE IF ~IsNull(ai) /\ Len(Val(ai).riskFactors) > 0
        THEN CompactList(Val(ai).riskFactors, 10)
        ELSE IF ~IsNull(ai) /\ Len(Val(ai).negative) > 0
        THEN CompactList(Val(ai).negative, 10)
        ELSE <<>>

\* buildFlaggedDoc: `aiConfidence`
FlaggedConfidence(analysis) ==
    LET judgment == analysis.agentSignals.aiJudgment
        ai == analysis.aiAnalysis
    IN  IF ~IsNull(judgment) THEN Some(Val(judgment).confidence)
        ELSE IF ~IsNull(ai) /\ Val(ai).confidenceLevel # "absent"
        THEN Some(Val(ai).confidenceLevel)
        ELSE Null

\* buildFlaggedDoc.  Null when the analysis URL has no hostname.  The free-text
\* summary and the TLS, redirect, crawl and warning evidence are left out.
BuildFlaggedDoc(analysis, observedAtMs) ==
    LET hostname == SafeHostname(analysis.normalizedUrl)
        judgment == analysis.agentSignals.aiJudgment
    IN  IF IsNull(hostname) THEN Null
        ELSE Some(
            [hostname |-> Val(hostname),
             normalizedUrl |-> analysis.normalizedUrl,
             firstObservedAtMs |-> observedAtMs,
             lastObservedAtMs |-> observedAtMs,
             lastAnalysisAtMs |-> IF IsNull(analysis.analyzedAt) THEN observedAtMs
                                  ELSE Val(analysis.analyzedAt),
             score |-> Max(0, Min(100, MathRound2(2 * analysis.score))),
             status |-> analysis.status,
             aiVerdict |-> IF IsNull(judgment) THEN Null ELSE Some(Val(judgment).verdict),
             aiConfidence |-> FlaggedConfidence(analysis),
             issues |-> FlaggedIssues(analysis),
             findings |-> SliceFirst(WarnOrBadItems(analysis.explainability), 8),
             evidence |-> [domainAgeDays |-> analysis.agentSignals.domainAgeDays],
             timesObserved |-> 1])

\* The fallback branch of upsertFlaggedFromAnalysis (store.get / store.set).
FallbackUpsert(store, doc) ==
    LET prev == store[doc.hostname]
    IN  IF ~IsNull(prev)
        THEN [store EXCEPT ![doc.hostname] =
                Some([doc EXCEPT !.firstObservedAtMs = Val(prev).firstObservedAtMs,
                                 !.timesObserved = Val(prev).timesObserved + 1])]
        ELSE [store EXCEPT ![doc.hostname] = Some(doc)]

\* The update document upsertFlaggedFromAnalysis hands to updateOne: for each
\* operator, the fields it names and their values.
UpsertUpdateDoc(doc) ==
    [setOnInsert |-> [hostname |-> doc.hostname,
                      firstObservedAtMs |-> doc.firstObservedAtMs,
                      timesObserved |-> 0],
     set |-> [normalizedUrl |-> doc.normalizedUrl,
              lastObservedAtMs |-> doc.lastObservedAtMs,
              lastAnalysisAtMs |-> doc.lastAnalysisAtMs,
              score |-> doc.score,
              status |-> doc.status,
              aiVerdict |-> doc.aiVerdict,
              aiConfidence |-> doc.aiConfidence,
              issues |-> doc.issues,
              findings |-> doc.findings,
              evidence |-> doc.evidence],
     inc |-> [timesObserved |-> 1]]

\* The server refuses an update whose operators name the same field twice
\* ("Updating the path ... would create a conflict"), whether or not it inserts.
UpdateHasConflict(update) ==
    \/ DOMAIN update.setOnInsert \cap DOMAIN update.set # {}
    \/ DOMAIN update.setOnInsert \cap DOMAIN update.inc # {}
    \/ DOMAIN update.set \cap DOMAIN update.inc # {}

\* f overridden by g.
Overlay(f, g) == [k \in DOMAIN f \cup DOMAIN g |-> IF k \in DOMAIN g THEN g[k] ELSE f[k]]

\* The document an accepted update leaves: $set and $inc always, $setOnInsert
\* (and the filter's hostname) only when it inserts.
UpdatedDocument(prev, update) ==
    LET base == IF IsNull(prev) THEN update.setOnInsert ELSE Val(prev)
        afterSet == Overlay(base, update.set)
        bumped == [k \in DOMAIN update.inc |->
                     (IF k \in DOMAIN afterSet THEN afterSet[k] ELSE 0) + update.inc[k]]
    IN  Overlay(afterSet, bumped)

\* col.updateOne({ hostname }, update, { upsert: true }) inside its try/catch:
\* a refused update throws, the catch logs it, the collection is as before.
DurableUpsert(col, doc) ==
    LET update == UpsertUpdateDoc(doc)
    IN  IF UpdateHasConflict(update) THEN col
        ELSE [col EXCEPT ![doc.hostname] = Some(UpdatedDocument(@, update))]

\* upsertFlaggedFromAnalysis against the stores (fallback, durable).  `threw`: the
\* awaited getMongoDb() rejected.  `built`: the doc, when one was built and the
\* call returned.
UpsertFlaggedFromAnalysis(analysis, observedAtMs, mongo, fallback, durable) ==
    LET doc == BuildFlaggedDoc(analysis, observedAtMs)
    IN  IF mongo = "down"
        THEN [threw |-> TRUE, built |-> Null, fallback |-> fallback, durable |-> durable]
        ELSE IF IsNull(doc)
        THEN [threw |-> FALSE, built |-> Null, fallback |-> fallback, durable |-> durable]
        ELSE IF mongo = "unset"
        THEN [threw |-> FALSE, built |-> doc,
              fallback |-> FallbackUpsert(fallback, Val(doc)), durable |-> durable]
        ELSE [threw |-> FALSE, built |-> doc,
              fallback |-> fallback, durable |-> DurableUpsert(durable, Val(doc))]

----------------------------------------------------------------------------
(* app/api/analyze/route.ts *)

\* 24 h, the clock counting in units of 12 h.
CACHE_TTL_MS == 2

\* makeCacheKey: the lower-cased hostname with the fixed version suffix; one
\* version only, so the hostname stands for the key.
MakeCacheKey(hostname) == hostname

\* Variant of stripEphemeralFromAgentSignals that leaves the screenshot in.
StripEphemeralKeepsScreenshot(signals) == signals

\* stripEphemeralFromAgentSignals
StripEphemeralFromAgentSignals(signals) ==
    IF IsNull(signals.screenshot) THEN signals
    ELSE [signals EXCEPT !.screenshot = Null]

\* POST, lines 359-384: the JSON body, the trimmed url, new URL(url), protocol and
\* hostname.  An accepted request gives the normalized URL and the cache key.
\* threw: the body is the JSON value null, and body.url (line 366, outside the
\* try block) is a TypeError.
ValidateRequest(req) ==
    IF req.body = "unparseable"
    THEN [ok |-> FALSE, threw |-> FALSE, error |-> "Invalid request body."]
    ELSE IF req.body = "null"
    THEN [ok |-> FALSE, threw |-> TRUE, error |-> "TypeError"]
    ELSE IF req.url = BlankUrl
    THEN [ok |-> FALSE, threw |-> FALSE, error |-> "Please provide a URL."]
    ELSE IF req.url = BadUrl
    THEN [ok |-> FALSE, threw |-> FALSE, error |-> "That URL doesn't look quite right."]
    ELSE IF req.url.protocol \notin HttpProtocols
    THEN [ok |-> FALSE, threw |-> FALSE, error |-> "Please use an http(s) website URL."]
    ELSE IF Len(req.url.host) < 2
    THEN [ok |-> FALSE, threw |-> FALSE, error |-> "Please enter a valid website domain."]
    ELSE [ok |-> TRUE, threw |-> FALSE, error |-> "", normalizedUrl |-> req.url,
          cacheKey |-> MakeCacheKey(req.url.host)]

\* mapPythonAgentSignals; `screenshot` is what putScreenshot gave for an embedded image.
MapPythonAgentSignals(data) ==
    [agent |-> "python",
     domainAgeDays |-> data.domain_age_days,
     aiJudgment |-> data.ai_judgment,
     screenshot |-> IF data.screenshotEmbedded THEN Some("embedded") ELSE Null]

\* tryAnalyzeViaPythonAgent.  reply: Null when the agent is not configured, the
\* call failed or the status was not ok; else the JSON it sent.
TryAnalyzeViaPythonAgent(reply) ==
    IF IsNull(reply) THEN Null
    ELSE LET data == Val(reply)
         IN  IF data.normalized_url = BlankUrl \/ ~data.scoreIsNumber THEN Null
             ELSE Some(
                [normalizedUrl |-> data.normalized_url,
                 score |-> data.score,
                 status |-> data.status,
                 explainability |-> data.explainability,
                 cached |-> FALSE,
                 analyzedAt |-> data.analyzed_at,
                 aiAnalysis |-> IF IsNull(data.ai_judgment) THEN Null
                                ELSE Some([aiScore |-> Val(data.ai_judgment).legitimacyScore,
                                           confidenceLevel |-> Val(data.ai_judgment).confidence,
                                           riskFactors |-> Val(data.ai_judgment).detectedIssues,
                                           negative |-> Val(data.ai_judgment).detectedIssues]),
                 agentSignals |-> MapPythonAgentSignals(data)])

\* The documents findOne may return for { cacheKey, expireAtMs > now } sorted by
\* analyzedAtMs descending: any of the newest.
FindNewestLive(col, cacheKey, nowMs) ==
    LET live == {d \in col : d.cacheKey = cacheKey /\ d.expireAtMs > nowMs}
    IN  {d \in live : \A e \in live : e.analyzedAtMs <= d.analyzedAtMs}

\* Variant of getCached whose memory tier still serves a record at its expiry.
GetCachedServesAtExpiry(cacheKey, nowMs, mongo, mem, col) ==
    IF ~IsNull(mem[cacheKey]) /\ Val(mem[cacheKey]).expireAtMs >= nowMs
    THEN {[threw |-> FALSE, record |-> mem[cacheKey]]}
    ELSE IF mongo = "unset" THEN {[threw |-> FALSE, record |-> Null]}
    ELSE IF mongo = "down" THEN {[threw |-> TRUE, record |-> Null]}
    ELSE {[threw |-> TRUE, record |-> Null]}
         \cup (IF FindNewestLive(col, cacheKey, nowMs) = {}
               THEN {[threw |-> FALSE, record |-> Null]}
               ELSE {[threw |-> FALSE, record |-> Some(d)] :
                        d \in FindNewestLive(col, cacheKey, nowMs)})

\* getCached: the outcomes it can have.  threw: getMongoDb() or findOne rejected.
GetCached(cacheKey, nowMs, mongo, mem, col) ==
    IF ~IsNull(mem[cacheKey]) /\ Val(mem[cacheKey]).expireAtMs > nowMs
    THEN {[threw |-> FALSE, record |-> mem[cacheKey]]}
    ELSE IF mongo = "unset" THEN {[threw |-> FALSE, record |-> Null]}
    ELSE IF mongo = "down" THEN {[threw |-> TRUE, record |-> Null]}
    ELSE {[threw |-> TRUE, record |-> Null]}
         \cup (IF FindNewestLive(col, cacheKey, nowMs) = {}
               THEN {[threw |-> FALSE, record |-> Null]}
               ELSE {[threw |-> FALSE, record |-> Some(d)] :
                        d \in FindNewestLive(col, cacheKey, nowMs)})

\* setCached: the outcomes it can have.  The memory entry is written first;
\* a failed insertOne is ignored, a rejected getMongoDb() is not.
SetCached(record, mongo, mem, col) ==
    LET mem2 == [mem EXCEPT ![record.cacheKey] = Some(record)]
    IN  IF mongo = "unset" THEN {[threw |-> FALSE, mem |-> mem2, col |-> col]}
        ELSE IF mongo = "down" THEN {[threw |-> TRUE, mem |-> mem2, col |-> col]}
        ELSE {[threw |-> FALSE, mem |-> mem2, col |-> col \cup {record}],
              [threw |-> FALSE, mem |-> mem2, col |-> col]}

\* The response built from a cache record (lines 399-416).  new Date(ms).toISOString()
\* is a timestamp Date.parse reads back as ms.
CachedResponse(cached, freshShot) ==
    [normalizedUrl |-> cached.normalizedUrl,
     score |-> cached.score,
     status |-> cached.status,
     explainability |-> cached.explainability,
     cached |-> TRUE,
     analyzedAt |-> Some(cached.analyzedAtMs),
     aiAnalysis |-> cached.aiAnalysis,
     agentSignals |-> [StripEphemeralFromAgentSignals(cached.agentSignals)
                            EXCEPT !.screenshot = freshShot]]

\* The cache record of the delegated path (lines 431-458).
AgentRecord(agentResponse, requestUrl, nowMs) ==
    LET parsed == SafeHostname(agentResponse.normalizedUrl)
        cacheHostname == IF IsNull(parsed) THEN requestUrl.host ELSE Val(parsed)
        safeAnalyzedAtMs == IF IsNull(agentResponse.analyzedAt) THEN nowMs
                            ELSE Val(agentResponse.analyzedAt)
    IN  [cacheKey |-> MakeCacheKey(cacheHostname),
         normalizedUrl |-> agentResponse.normalizedUrl,
         score |-> agentResponse.score,
         status |-> agentResponse.status,
         explainability |-> agentResponse.explainability,
         cached |-> FALSE,
         analyzedAt |-> agentResponse.analyzedAt,
         analyzedAtMs |-> safeAnalyzedAtMs,
         expireAtMs |-> safeAnalyzedAtMs + CACHE_TTL_MS,
         aiAnalysis |-> agentResponse.aiAnalysis,
         agentSignals |-> StripEphemeralFromAgentSignals(agentResponse.agentSignals)]

\* The cache record of the local path (lines 496-516).
LocalRecord(analysisBase) ==
    [cacheKey |-> MakeCacheKey(analysisBase.normalizedUrl.host),
     normalizedUrl |-> analysisBase.normalizedUrl,
     score |-> analysisBase.score,
     status |-> analysisBase.status,
     explainability |-> analysisBase.explainability,
     cached |-> FALSE,
     analyzedAt |-> Some(analysisBase.analyzedAtMs),
     analyzedAtMs |-> analysisBase.analyzedAtMs,
     expireAtMs |-> analysisBase.analyzedAtMs + CACHE_TTL_MS,
     aiAnalysis |-> analysisBase.aiAnalysis,
     agentSignals |-> NodeSignals]

\* The response built from a fresh record (lines 464-479, 522-535).
FreshResponse(record, screenshot) ==
    [normalizedUrl |-> record.normalizedUrl,
     score |-> record.score,
     status |-> record.status,
     explainability |-> record.explainability,
     cached |-> FALSE,
     analyzedAt |-> record.analyzedAt,
     aiAnalysis |-> record.aiAnalysis,
     agentSignals |-> [record.agentSignals EXCEPT !.screenshot = screenshot]]

----------------------------------------------------------------------------
(* What a request, the agent and the local pipeline can bring to the endpoint *)

MaxRequests == 2

MaxTime == 2

RequestUrls ==
    {BlankUrl, BadUrl,
     [protocol |-> "ftp:", host |-> <<"x", "com">>],
     [protocol |-> "https:", host |-> <<"localhost">>]}
    \cup {[protocol |-> "https:", host |-> <<"newshop", "biz">>]}

Requests ==
    {[body |-> b, url |-> BlankUrl, force |-> FALSE] : b \in {"unparseable", "null"}}
    \cup [body : {"object"}, url : RequestUrls, force : BOOLEAN]

\* tryCaptureScreenshotViaPythonAgent: null without an agent or when the call fails.
FreshShots(agentConfigured) ==
    IF agentConfigured THEN {Null, Some("captured")} ELSE {Null}

SuspiciousJudgment ==
    Some([verdict |-> "suspicious", confidence |-> "high",
          detectedIssues |-> <<"fake reviews", "", "no contact details">>,
          legitimacyScore |-> 20])

LegitimateJudgment ==
    Some([verdict |-> "legitimate", confidence |-> "medium",
          detectedIssues |-> <<>>, legitimacyScore |-> 80])

\* What the agent found: score, status and judgment (it sends them unchecked),
\* its timestamp relative to the time of the call (null: one Date.parse cannot
\* read; 0 - CACHE_TTL_MS: a result the agent made a day ago) and an embedded
\* screenshot.
AgentFindings ==
    {[score |-> 30, status |-> "High Risk Indicators Detected", ai_judgment |-> Null,
      analyzed_at |-> Null, screenshotEmbedded |-> FALSE],
     [score |-> 60, status |-> "Proceed with Caution", ai_judgment |-> SuspiciousJudgment,
      analyzed_at |-> Some(0), screenshotEmbedded |-> TRUE],
     [score |-> 130, status |-> "Low Risk", ai_judgment |-> LegitimateJudgment,
      analyzed_at |-> Some(0 - CACHE_TTL_MS), screenshotEmbedded |-> FALSE]}

AgentExplainability == <<Item("https", "good"), Item("domainAge", "warn")>>

\* The JSON of one agent reply.
AgentJson(u, n, f, nowMs) ==
    Some([normalized_url |-> u, scoreIsNumber |-> n, score |-> f.score,
          status |-> f.status, explainability |-> AgentExplainability,
          analyzed_at |-> IF IsNull(f.analyzed_at) THEN Null
                          ELSE Some(nowMs + Val(f.analyzed_at)),
          domain_age_days |-> Some(12),
          ai_judgment |-> f.ai_judgment, screenshotEmbedded |-> f.screenshotEmbedded])

\* What POST <agent>/analyze can come back with, as tryAnalyzeViaPythonAgent sees
\* it: nothing, a reply without normalized_url or a numeric score, a full reply
\* naming the requested URL, another host or a string that is no URL.
AgentReplies(agentConfigured, url, nowMs) ==
    IF ~agentConfigured THEN {Null}
    ELSE {Null}
         \cup {AgentJson(BlankUrl, TRUE, f, nowMs) : f \in AgentFindings}
         \cup {AgentJson(url, FALSE, f, nowMs) : f \in AgentFindings}
         \cup {AgentJson(u, TRUE, f, nowMs) :
                 u \in {url, BadUrl} \cup [protocol : {"https:"}, host : Hostnames],
                 f \in AgentFindings}

\* The local pipeline's awaited calls, as the endpoint run samples them.
LocalAges == {Some(365)}

RichPage == [kind |-> "text", visible |-> {"about", "company", "privacy", "help"},
             scripted |-> {}]

\* fetchHomepageSignals: the catch block, a final URL that is not http(s), a
\* page at the end of a redirect chain that may have changed host.
LocalFetches(url) ==
    {[finalUrl |-> url, htmlText |-> NoHtml, headers |-> {}],
     [finalUrl |-> [protocol |-> "ftp:", host |-> url.host], htmlText |-> NoHtml,
      headers |-> {}]}
    \cup {[finalUrl |-> [protocol |-> "https:", host |-> h], htmlText |-> RichPage,
           headers |-> {}] : h \in Hostnames}

\* No API key, or a high-confidence judgment with a raw score below 0.
LocalRaws ==
    {RawFailure("no_key"),
     [RawFailure("json") EXCEPT !.score2 = 0 - 2 * RawSlack, !.confidenceLevel = "high",
                                !.riskFactors = <<"urgency tactics", "">>]}

\* What the analyses collection may hold when the process starts: a record an
\* earlier process cached half a TTL ago.
SeedRecord ==
    LocalRecord(Val(AnalyzeWebsite([protocol |-> "https:", host |-> <<"newshop", "biz">>],
                                   Some(365),
                                   [finalUrl |-> [protocol |-> "https:",
                                                  host |-> <<"newshop", "biz">>],
                                    htmlText |-> RichPage, headers |-> {}],
                                   RawFailure("no_key"), 0 - 1)))

----------------------------------------------------------------------------
(* The analyze endpoint: one step per request, by the path it takes *)

Init ==
    /\ XAtRest
    /\ PlAtRest
    /\ RlAtRest
    /\ NuAtRest
    /\ cfg \in [enableCache : BOOLEAN, mongo : {"unset", "up", "down"}, agent : BOOLEAN]
    /\ now = 0
    /\ memoryCache = [k \in Hostnames |-> Null]
    /\ dbAnalyses \in (IF cfg.mongo = "up" THEN {{}, {SeedRecord}} ELSE {{}})
    /\ flaggedFallback = [h \in Hostnames |-> Null]
    /\ dbFlagged = [h \in Hostnames |-> Null]
    /\ served = 0
    /\ last = NoOutcome
    /\ upserts = [h \in Hostnames |-> <<>>]

\* Date.now() moves on.
Tick ==
    /\ now < MaxTime
    /\ now' = now + 1
    /\ UNCHANGED <<epOthers, cfg, memoryCache, dbAnalyses, flaggedFallback, dbFlagged,
                   served, last, upserts>>

\* The request ends with jsonError(message), status 400.
Rejected(req, message, calls) ==
    [kind |-> "rejected", path |-> "none", response |-> Null, atMs |-> now,
     error |-> message, request |-> req, calls |-> calls]

\* A rejection nothing catches leaves POST: the framework answers 500.
Crashed(req, path, calls) ==
    [kind |-> "crash", path |-> path, response |-> Null, atMs |-> now,
     error |-> "unhandled rejection", request |-> req, calls |-> calls]

\* The cache lookup of lines 396-397, skipped on force or with the cache off.
Lookup(req, cacheKey) ==
    IF ~req.force /\ cfg.enableCache
    THEN GetCached(cacheKey, now, cfg.mongo, memoryCache, dbAnalyses)
    ELSE {[threw |-> FALSE, record |-> Null]}

\* The functions POST has called by the time the lookup is over.
LookupCalls(req) == IF ~req.force /\ cfg.enableCache THEN {"getCached"} ELSE {}

\* The functions POST has called once a fresh record is stored.
StoreCalls == IF cfg.enableCache THEN {"setCached"} ELSE {}

\* if (ENABLE_CACHE) await setCached(record)
Store(record) ==
    IF cfg.enableCache THEN SetCached(record, cfg.mongo, memoryCache, dbAnalyses)
    ELSE {[threw |-> FALSE, mem |-> memoryCache, col |-> dbAnalyses]}

\* The tail every path shares: the flag check, the upsert, the JSON response.
Respond(req, path, response, calls) ==
    LET up == IF IsFlaggedAnalysis(response)
              THEN UpsertFlaggedFromAnalysis(response, now, cfg.mongo,
                                             flaggedFallback, dbFlagged)
              ELSE [threw |-> FALSE, built |-> Null,
                    fallback |-> flaggedFallback, durable |-> dbFlagged]
    IN  /\ flaggedFallback' = up.fallback
        /\ dbFlagged' = up.durable
        /\ upserts' = IF IsNull(up.built) THEN upserts
                      ELSE [upserts EXCEPT ![Val(up.built).hostname] =
                                Append(@, Val(up.built))]
        /\ last' = LET called == calls \cup (IF IsFlaggedAnalysis(response)
                                               THEN {"upsertFlaggedFromAnalysis"} ELSE {})
                   IN  IF up.threw THEN Crashed(req, path, called)
                       ELSE [kind |-> "ok", path |-> path, response |-> Some(response),
                             atMs |-> now, error |-> "", request |-> req,
                             calls |-> called]

\* POST with a body or url the validation of lines 359-384 turns away.
PostRejected ==
    /\ served < MaxRequests
    /\ \E req \in Requests :
        /\ ~ValidateRequest(req).ok
        /\ ~ValidateRequest(req).threw
        /\ last' = Rejected(req, ValidateRequest(req).error, {})
    /\ served' = served + 1
    /\ UNCHANGED <<epOthers, cfg, now, memoryCache, dbAnalyses, flaggedFallback,
                   dbFlagged, upserts>>

\* POST whose validation throws: nothing catches it.
PostValidationThrew ==
    /\ served < MaxRequests
    /\ \E req \in Requests :
        /\ ValidateRequest(req).threw
        /\ last' = Crashed(req, "validation", {})
    /\ served' = served + 1
    /\ UNCHANGED <<epOthers, cfg, now, memoryCache, dbAnalyses, flaggedFallback,
                   dbFlagged, upserts>>

\* POST whose cache lookup rejects (getMongoDb or findOne).
PostLookupThrew ==
    /\ served < MaxRequests
    /\ \E req \in Requests :
        /\ ValidateRequest(req).ok
        /\ \E got \in Lookup(req, ValidateRequest(req).cacheKey) : got.threw
        /\ last' = Crashed(req, "cache", LookupCalls(req))
    /\ served' = served + 1
    /\ UNCHANGED <<epOthers, cfg, now, memoryCache, dbAnalyses, flaggedFallback,
                   dbFlagged, upserts>>

\* POST answered from the cache (lines 398-423).
PostCacheHit ==
    /\ served < MaxRequests
    /\ \E req \in Requests :
        /\ ValidateRequest(req).ok
        /\ \E got \in Lookup(req, ValidateRequest(req).cacheKey),
              freshShot \in FreshShots(cfg.agent) :
            /\ ~got.threw
            /\ ~IsNull(got.record)
            /\ Respond(req, "cache", CachedResponse(Val(got.record), freshShot),
                       LookupCalls(req) \cup {"tryCaptureScreenshotViaPythonAgent"})
    /\ served' = served + 1
    /\ UNCHANGED <<epOthers, cfg, now, memoryCache, dbAnalyses>>

\* POST answered by the Python agent (lines 426-486).
PostDelegated ==
    /\ served < MaxRequests
    /\ \E req \in Requests :
        /\ ValidateRequest(req).ok
        /\ \E got \in Lookup(req, ValidateRequest(req).cacheKey),
              reply \in AgentReplies(cfg.agent, req.url, now),
              freshShot \in FreshShots(cfg.agent) :
            /\ ~got.threw
            /\ IsNull(got.record)
            /\ LET agentResponse == TryAnalyzeViaPythonAgent(reply)
                   record == AgentRecord(Val(agentResponse), req.url, now)
                   screenshot == IF IsNull(record.agentSignals.screenshot) THEN freshShot
                                 ELSE record.agentSignals.screenshot
               IN  /\ ~IsNull(agentResponse)
                   /\ \E stored \in Store(record) :
                        /\ memoryCache' = stored.mem
                        /\ dbAnalyses' = stored.col
                        /\ IF stored.threw
                           THEN /\ last' = Crashed(req, "agent",
                                                LookupCalls(req) \cup StoreCalls
                                                    \cup {"tryAnalyzeViaPythonAgent"})
                                /\ UNCHANGED <<flaggedFallback, dbFlagged, upserts>>
                           ELSE Respond(req, "agent", FreshResponse(record, screenshot),
                                        LookupCalls(req) \cup StoreCalls
                                            \cup {"tryAnalyzeViaPythonAgent",
                                                  "tryCaptureScreenshotViaPythonAgent"})
    /\ served' = served + 1
    /\ UNCHANGED <<epOthers, cfg, now>>

\* POST answered by analyzeWebsite (lines 488-541).
PostLocal ==
    /\ served < MaxRequests
    /\ \E req \in Requests :
        /\ ValidateRequest(req).ok
        /\ \E reply \in AgentReplies(cfg.agent, req.url, now) :
                IsNull(TryAnalyzeViaPythonAgent(reply))
        /\ \E got \in Lookup(req, ValidateRequest(req).cacheKey),
              freshShot \in FreshShots(cfg.agent),
              ageDays \in LocalAges, fetched \in LocalFetches(req.url), raw \in LocalRaws :
            /\ ~got.threw
            /\ IsNull(got.record)
            /\ LET analysisBase == AnalyzeWebsite(req.url, ageDays, fetched, raw, now)
                   record == LocalRecord(Val(analysisBase))
               IN  /\ ~IsNull(analysisBase)
                   /\ \E stored \in Store(record) :
                        /\ memoryCache' = stored.mem
                        /\ dbAnalyses' = stored.col
                        /\ IF stored.threw
                           THEN /\ last' = Crashed(req, "local",
                                                LookupCalls(req) \cup StoreCalls
                                                    \cup {"tryAnalyzeViaPythonAgent",
                                                          "analyzeWebsite"})
                                /\ UNCHANGED <<flaggedFallback, dbFlagged, upserts>>
                           ELSE Respond(req, "local", FreshResponse(record, freshShot),
                                        LookupCalls(req) \cup StoreCalls
                                            \cup {"tryAnalyzeViaPythonAgent",
                                                  "analyzeWebsite",
                                                  "tryCaptureScreenshotViaPythonAgent"})
    /\ served' = served + 1
    /\ UNCHANGED <<epOthers, cfg, now>>

\* POST whose analyzeWebsite call threw: jsonError(message) (lines 489-494).
PostLocalThrew ==
    /\ served < MaxRequests
    /\ \E req \in Requests :
        /\ ValidateRequest(req).ok
        /\ \E reply \in AgentReplies(cfg.agent, req.url, now) :
                IsNull(TryAnalyzeViaPythonAgent(reply))
        /\ \E got \in Lookup(req, ValidateRequest(req).cacheKey),
              ageDays \in LocalAges, fetched \in LocalFetches(req.url), raw \in LocalRaws :
            /\ ~got.threw
            /\ IsNull(got.record)
            /\ IsNull(AnalyzeWebsite(req.url, ageDays, fetched, raw, now))
        /\ last' = Rejected(req, "Please use an http(s) website URL.",
                         LookupCalls(req) \cup {"tryAnalyzeViaPythonAgent", "analyzeWebsite"})
    /\ served' = served + 1
    /\ UNCHANGED <<epOthers, cfg, now, memoryCache, dbAnalyses, flaggedFallback,
                   dbFlagged, upserts>>

Next ==
    \/ Tick
    \/ PostRejected
    \/ PostValidationThrew
    \/ PostLookupThrew
    \/ PostCacheHit
    \/ PostDelegated
    \/ PostLocal
    \/ PostLocalThrew

Spec == Init /\ [][Next]_vars

----------------------------------------------------------------------------
(* lib/ipRateLimit.ts *)

\* Tokens are counted in millionths of a token, refill rates in thousandths of a
\* token per second and time in ms, so that (elapsedMs / 1000) * refillPerSecond
\* is elapsedMs * refillMilli millionths, exactly.
TokenUnit == 1000000

\* pruneIfNeeded: the store size from which it prunes, and the idle time it allows.
PRUNE_MIN_BUCKETS == 1500

PRUNE_IDLE_MS == 1800000

\* Math.max(1, Math.floor(config.capacity)); the configured capacity is in halves.
CapacityOf(config) == Max(1, config.capacity2 \div 2)

\* Math.max(0.001, config.refillPerSecond), in thousandths.
RefillMilliOf(config) == Max(1, config.refillMilli)

\* `${config.scope}:${ip}`, or the scope's shared "unknown" bucket.
RateLimitKey(config, ip) == <<config.scope, IF IsNull(ip) THEN "unknown" ELSE Val(ip)>>

\* pruneIfNeeded.  others: the buckets of the clients that are not followed.
PruneIfNeeded(store, others, nowMs) ==
    IF Cardinality(DOMAIN store) + others < PRUNE_MIN_BUCKETS THEN store
    ELSE [k \in {j \in DOMAIN store : ~(store[j].lastSeenMs < nowMs - PRUNE_IDLE_MS)}
            |-> store[k]]

\* Math.ceil(a / b) for a >= 0, b > 0.
CeilDiv(a, b) == (a + b - 1) \div b

\* Variant of the hint that always says one second.
RetryAfterOneSecond(tokens, refillMilli) == 1

\* Math.max(1, Math.ceil(missing / refillPerSecond)), missing = 1 - tokens
RetryAfterSeconds(tokens, refillMilli) ==
    Max(1, CeilDiv(TokenUnit - tokens, refillMilli * 1000))

\* Variant of the refill that forgets the cap at capacity.
RefilledTokensUncapped(existing, capacity, refillMilli, nowMs) ==
    LET elapsedMs == Max(0, nowMs - existing.lastRefillMs)
        refill == elapsedMs * refillMilli
    IN  existing.tokens + refill

\* The bucket's tokens after the refill for the time since lastRefillMs.
RefilledTokens(existing, capacity, refillMilli, nowMs) ==
    LET elapsedMs == Max(0, nowMs - existing.lastRefillMs)
        refill == elapsedMs * refillMilli
    IN  Min(capacity * TokenUnit, existing.tokens + refill)

\* Variant of checkIpRateLimit that charges nothing for the check that creates a bucket.
CheckIpRateLimitFreeFirst(store0, others, ip, config, nowMs) ==
    LET key == RateLimitKey(config, ip)
        store == PruneIfNeeded(store0, others, nowMs)
        capacity == CapacityOf(config)
        refillMilli == RefillMilliOf(config)
    IN  IF key \notin DOMAIN store
        THEN [store |-> (key :> [tokens |-> capacity * TokenUnit,
                                 lastRefillMs |-> nowMs, lastSeenMs |-> nowMs]) @@ store,
              created |-> TRUE,
              result |-> [ok |-> TRUE, limit |-> capacity, remaining |-> capacity - 1,
                          retryAfterSeconds |-> 0]]
        ELSE LET tokens == RefilledTokens(store[key], capacity, refillMilli, nowMs)
             IN  IF tokens < TokenUnit
                 THEN [store |-> [store EXCEPT ![key] =
                                    [tokens |-> tokens, lastRefillMs |-> nowMs,
                                     lastSeenMs |-> nowMs]],
                       created |-> FALSE,
                       result |-> [ok |-> FALSE, limit |-> capacity, remaining |-> 0,
                                   retryAfterSeconds |->
                                     RetryAfterSeconds(tokens, refillMilli)]]
                 ELSE [store |-> [store EXCEPT ![key] =
                                    [tokens |-> tokens - TokenUnit, lastRefillMs |-> nowMs,
                                     lastSeenMs |-> nowMs]],
                       created |-> FALSE,
                       result |-> [ok |-> TRUE, limit |-> capacity,
                                   remaining |-> Max(0, (tokens - TokenUnit) \div TokenUnit),
                                   retryAfterSeconds |-> 0]]

\* checkIpRateLimit: the store it leaves, whether it created the bucket, its result
\* (retryAfterSeconds is 0 where the result has none).
CheckIpRateLimit(store0, others, ip, config, nowMs) ==
    LET key == RateLimitKey(config, ip)
        store == PruneIfNeeded(store0, others, nowMs)
        capacity == CapacityOf(config)
        refillMilli == RefillMilliOf(config)
    IN  IF key \notin DOMAIN store
        THEN [store |-> (key :> [tokens |-> (capacity - 1) * TokenUnit,
                                 lastRefillMs |-> nowMs, lastSeenMs |-> nowMs]) @@ store,
              created |-> TRUE,
              result |-> [ok |-> TRUE, limit |-> capacity, remaining |-> capacity - 1,
                          retryAfterSeconds |-> 0]]
        ELSE LET tokens == RefilledTokens(store[key], capacity, refillMilli, nowMs)
             IN  IF tokens < TokenUnit
                 THEN [store |-> [store EXCEPT ![key] =
                                    [tokens |-> tokens, lastRefillMs |-> nowMs,
                                     lastSeenMs |-> nowMs]],
                       created |-> FALSE,
                       result |-> [ok |-> FALSE, limit |-> capacity, remaining |-> 0,
                                   retryAfterSeconds |->
                                     RetryAfterSeconds(tokens, refillMilli)]]
                 ELSE [store |-> [store EXCEPT ![key] =
                                    [tokens |-> tokens - TokenUnit, lastRefillMs |-> nowMs,
                                     lastSeenMs |-> nowMs]],
                       created |-> FALSE,
                       result |-> [ok |-> TRUE, limit |-> capacity,
                                   remaining |-> Max(0, (tokens - TokenUnit) \div TokenUnit),
                                   retryAfterSeconds |-> 0]]

----------------------------------------------------------------------------
(* The rate limiter on its own: checks by two clients in one scope, and the clock *)

MaxChecks == 5

MaxRlTicks == 2

\* The screenshot-timeline scope (capacity 4, 0.10/s), and a scope whose capacity
\* 2.5 and refill rate 0 the limiter turns into 2 and 0.001/s.
RlConfigs ==
    {[scope |-> "screenshot_timeline", capacity2 |-> 8, refillMilli |-> 100],
     [scope |-> "slow", capacity2 |-> 5, refillMilli |-> 0]}

\* How far the clock moves between two checks: half a second, ten seconds, and
\* just over the 30 minutes after which an idle bucket may be pruned.
RlSteps == {500, 10000, PRUNE_IDLE_MS + 1}

\* How many buckets other clients hold: none, or enough for pruning to start.
RlOtherBuckets == {0, PRUNE_MIN_BUCKETS}

RlChecksMade == Len(rlLog[Some("203.0.113.7")]) + Len(rlLog[Null])

RlInit ==
    /\ XAtRest
    /\ PlAtRest
    /\ EpAtRest
    /\ NuAtRest
    /\ rlConfig \in RlConfigs
    /\ rlNow = 0
    /\ rlTicks = 0
    /\ rlStore = <<>>
    /\ rlLog = [c \in RlClients |-> <<>>]

RlTick ==
    /\ rlTicks < MaxRlTicks
    /\ \E step \in RlSteps : rlNow' = rlNow + step
    /\ rlTicks' = rlTicks + 1
    /\ UNCHANGED <<rlOthers, rlConfig, rlStore, rlLog>>

\* One request reaches checkIpRateLimit.
RlCheck ==
    /\ RlChecksMade < MaxChecks
    /\ \E ip \in RlClients, others \in RlOtherBuckets :
        LET out == CheckIpRateLimit(rlStore, others, ip, rlConfig, rlNow)
        IN  /\ rlStore' = out.store
            /\ rlLog' = [rlLog EXCEPT ![ip] =
                            Append(@, [atMs |-> rlNow, created |-> out.created,
                                       ok |-> out.result.ok,
                                       remaining |-> out.result.remaining,
                                       retryAfterSeconds |-> out.result.retryAfterSeconds,
                                       tokens |-> out.store[RateLimitKey(rlConfig, ip)].tokens])]
    /\ UNCHANGED <<rlOthers, rlConfig, rlNow, rlTicks>>

RlNext == RlTick \/ RlCheck

SpecRateLimit == RlInit /\ [][RlNext]_vars

----------------------------------------------------------------------------
(* The page's normalizeUrlInput.  A string is a sequence of characters. *)

Letters == {"a", "b", "f", "h", "p", "q", "s", "t", "A", "H", "P", "T"}

DigitChars == <<"0", "1", "2", "3", "4", "5", "6", "7", "8", "9">>

Digits == {DigitChars[i] : i \in 1..10}

\* ASCII lower-casing, as the URL parser applies it to the scheme and the host.
ToLowerChar(c) ==
    CASE c = "A" -> "a" [] c = "H" -> "h" [] c = "P" -> "p" [] c = "T" -> "t"
      [] OTHER -> c

ToLower(s) == [i \in 1..Len(s) |-> ToLowerChar(s[i])]

Take(s, n) == SubSeq(s, 1, n)

Drop(s, n) == SubSeq(s, n + 1, Len(s))

\* The position of the first character of s that is in set; Len(s) + 1 if none.
IndexOfAny(s, set) ==
    IF \E i \in 1..Len(s) : s[i] \in set
    THEN CHOOSE i \in 1..Len(s) : s[i] \in set /\ \A j \in 1..(i - 1) : s[j] \notin set
    ELSE Len(s) + 1

RECURSIVE TrimStart(_)
TrimStart(s) == IF s # <<>> /\ s[1] = " " THEN TrimStart(Tail(s)) ELSE s

RECURSIVE TrimEnd(_)
TrimEnd(s) == IF s # <<>> /\ s[Len(s)] = " " THEN TrimEnd(Take(s, Len(s) - 1)) ELSE s

\* raw.trim()
Trim(s) == TrimEnd(TrimStart(s))

\* /^[a-zA-Z][a-zA-Z\d+.-]*:/.test(input)
HasScheme(input) ==
    \E i \in 2..Len(input) :
        /\ input[i] = ":"
        /\ input[1] \in Letters
        /\ \A j \in 2..(i - 1) : input[j] \in Letters \cup Digits \cup {"+", ".", "-"}

RECURSIVE Split(_, _)
Split(s, sep) ==
    LET i == IndexOfAny(s, {sep})
    IN  IF i > Len(s) THEN <<s>> ELSE <<Take(s, i - 1)>> \o Split(Drop(s, i), sep)

DigitValue(c) == (CHOOSE i \in 1..10 : DigitChars[i] = c) - 1

RECURSIVE BaseValue(_, _)
BaseValue(ds, base) ==
    IF ds = <<>> THEN 0
    ELSE base * BaseValue(Take(ds, Len(ds) - 1), base) + DigitValue(ds[Len(ds)])

RECURSIVE DecString(_)
DecString(n) ==
    IF n < 10 THEN <<DigitChars[n + 1]>>
    ELSE DecString(n \div 10) \o <<DigitChars[(n % 10) + 1]>>

IsNumber(label) == label # <<>> /\ \A i \in 1..Len(label) : label[i] \in Digits

\* The IPv4 number parser on a string of digits: octal after a leading 0, else
\* decimal; -1 is failure.
IPv4Number(label) ==
    IF ~IsNumber(label) THEN 0 - 1
    ELSE IF Len(label) > 1 /\ label[1] = "0"
    THEN IF \E i \in 1..Len(label) : label[i] \in {"8", "9"} THEN 0 - 1
         ELSE BaseValue(label, 8)
    ELSE BaseValue(label, 10)

Pow256(k) == CASE k = 0 -> 1 [] k = 1 -> 256 [] k = 2 -> 65536 [] OTHER -> 16777216

\* The IPv4 parser and serializer: the last part fills the bytes the others leave.
ParseIPv4(labels) ==
    LET parts == IF Len(labels) > 1 /\ labels[Len(labels)] = <<>>
                 THEN Take(labels, Len(labels) - 1) ELSE labels
        n == Len(parts)
        v == [i \in 1..n |-> IPv4Number(parts[i])]
        byte(k) == IF k < n THEN v[k] ELSE (v[n] \div Pow256(4 - k)) % 256
    IN  IF n > 4 \/ \E i \in 1..n : v[i] < 0 THEN Null
        ELSE IF \E i \in 1..(n - 1) : v[i] > 255 THEN Null
        ELSE IF (n > 1 /\ v[n] >= Pow256(5 - n)) \/ (n = 1 /\ v[n] \div 65536 >= 65536)
        THEN Null
        ELSE Some(DecString(byte(1)) \o <<".">> \o DecString(byte(2)) \o <<".">>
                    \o DecString(byte(3)) \o <<".">> \o DecString(byte(4)))

\* The host parser: lower-cased; a host that ends in a number is an IPv4 address.
ParseHost(raw) ==
    LET lower == ToLower(raw)
        labels == Split(lower, ".")
        lastLabel == IF Len(labels) > 1 /\ labels[Len(labels)] = <<>>
                     THEN labels[Len(labels) - 1] ELSE labels[Len(labels)]
    IN  IF raw = <<>> THEN Null
        ELSE IF IsNumber(lastLabel) THEN ParseIPv4(labels)
        ELSE Some(lower)

\* The path state: "." is dropped, ".." drops the segment before it.
RECURSIVE WalkPath(_, _)
WalkPath(path, segments) ==
    IF segments = <<>> THEN path
    ELSE LET buffer == Head(segments)
             isLast == Len(segments) = 1
             shortened == IF path = <<>> THEN path ELSE Take(path, Len(path) - 1)
         IN  IF buffer = <<".", ".">>
             THEN WalkPath(IF isLast THEN Append(shortened, <<>>) ELSE shortened,
                           Tail(segments))
             ELSE IF buffer = <<".">>
             THEN WalkPath(IF isLast THEN Append(path, <<>>) ELSE path, Tail(segments))
             ELSE WalkPath(Append(path, buffer), Tail(segments))

ParsePath(raw) ==
    WalkPath(<<>>, IF raw = <<>> THEN << <<>> >> ELSE Split(Tail(raw), "/"))

HttpScheme == <<"h", "t", "t", "p">>

HttpsScheme == <<"h", "t", "t", "p", "s">>

DefaultPort(scheme) == IF scheme = HttpsScheme THEN 443 ELSE 80

RECURSIVE SkipSlashes(_)
SkipSlashes(s) == IF s # <<>> /\ s[1] = "/" THEN SkipSlashes(Tail(s)) ELSE s

\* new URL(s) for a string that starts with a scheme.  Null: it throws.  For a
\* scheme other than http(s) only the scheme is kept (normalizeUrlInput throws
\* on it whatever the rest is).
ParseUrl(s) ==
    LET colon == IndexOfAny(s, {":"})
        scheme == ToLower(Take(s, colon - 1))
        rest == SkipSlashes(Drop(s, colon))
        authEnd == IndexOfAny(rest, {"/", "?", "#"})
        authority == Take(rest, authEnd - 1)
        tail == Drop(rest, authEnd - 1)
        hostEnd == IndexOfAny(authority, {":"})
        host == ParseHost(Take(authority, hostEnd - 1))
        portRaw == Drop(authority, hostEnd)
        portValue == BaseValue(portRaw, 10)
        pathEnd == IndexOfAny(tail, {"?", "#"})
        afterPath == Drop(tail, pathEnd - 1)
        hashAt == IndexOfAny(afterPath, {"#"})
    IN  IF scheme \notin {HttpScheme, HttpsScheme}
        THEN Some([scheme |-> scheme, hostname |-> <<>>, port |-> Null, path |-> <<>>,
                   query |-> Null, fragment |-> Null])
        ELSE IF IsNull(host) THEN Null
        ELSE IF portRaw # <<>> /\ (~IsNumber(portRaw) \/ portValue > 65535) THEN Null
        ELSE Some([scheme |-> scheme,
                   hostname |-> Val(host),
                   port |-> IF portRaw = <<>> \/ portValue = DefaultPort(scheme)
                            THEN Null ELSE Some(portValue),
                   path |-> ParsePath(Take(tail, pathEnd - 1)),
                   query |-> IF afterPath # <<>> /\ afterPath[1] = "?"
                             THEN Some(SubSeq(afterPath, 2, hashAt - 1)) ELSE Null,
                   fragment |-> IF hashAt <= Len(afterPath)
                                THEN Some(Drop(afterPath, hashAt)) ELSE Null])

RECURSIVE PathString(_)
PathString(path) ==
    IF path = <<>> THEN <<>> ELSE <<"/">> \o Head(path) \o PathString(Tail(path))

\* url.toString(): the URL serializer.
Serialize(url) ==
    url.scheme \o <<":", "/", "/">> \o url.hostname
        \o (IF IsNull(url.port) THEN <<>> ELSE <<":">> \o DecString(Val(url.port)))
        \o PathString(url.path)
        \o (IF IsNull(url.query) THEN <<>> ELSE <<"?">> \o Val(url.query))
        \o (IF IsNull(url.fragment) THEN <<>> ELSE <<"#">> \o Val(url.fragment))

\* Variant of url.hash = "" that leaves the fragment where it is.
SetHashKeepsFragment(url) == url

\* url.hash = ""
SetHashEmpty(url) == [url EXCEPT !.fragment = Null]

Refused(message) == [ok |-> FALSE, value |-> <<>>, error |-> message]

\* normalizeUrlInput.  ok = FALSE: it threw.
NormalizeUrlInput(raw) ==
    LET input == Trim(raw)
        withScheme == IF HasScheme(input) THEN input
                      ELSE HttpsScheme \o <<":", "/", "/">> \o input
        url == ParseUrl(withScheme)
    IN  IF input = <<>> THEN Refused("Please enter a website URL.")
        ELSE IF IsNull(url)
        THEN Refused("That URL doesn't look quite right. Please try again.")
        ELSE IF Val(url).scheme \notin {HttpsScheme, HttpScheme}
        THEN Refused("Please use an http(s) website URL.")
        ELSE IF Val(url).hostname = <<>>
                \/ \A i \in 1..Len(Val(url).hostname) : Val(url).hostname[i] # "."
        THEN Refused("Please enter a valid website domain.")
        ELSE [ok |-> TRUE, value |-> Serialize(SetHashEmpty(Val(url))), error |-> ""]

\* What may be typed into the URL field: padding, a scheme or none, a host, a
\* port, a path, a query and a fragment.
UrlInputs ==
    LET SchemeTexts == {<<>>, <<"/", "/">>,
                        <<"h", "t", "t", "p", "s", ":", "/", "/">>,
                        <<"H", "T", "T", "P", ":", "/", "/">>,
                        <<"h", "t", "t", "p", ":">>,
                        <<"f", "t", "p", ":", "/", "/">>}
        HostTexts == {<<>>, <<"a", ".", "b">>, <<"A", ".", "b">>, <<"a", "b">>,
                      <<"a", ".", "b", ".">>, <<"1", ".", "2">>, <<"7">>,
                      <<"a", ".", "1">>}
        PortTexts == {<<>>, <<":">>, <<":", "8">>, <<":", "8", "0">>,
                      <<":", "4", "4", "3">>}
        PathTexts == {<<>>, <<"/">>, <<"/", "p">>, <<"/", "P", "/", ".">>,
                      <<"/", "p", "/", ".", ".">>}
        QueryTexts == {<<>>, <<"?">>, <<"?", "q">>}
        FragmentTexts == {<<>>, <<"#">>, <<"#", "f">>}
        Paddings == {<<>>, <<" ">>}
    IN  {pad \o scheme \o host \o port \o path \o query \o fragment \o pad :
            pad \in Paddings, scheme \in SchemeTexts, host \in HostTexts,
            port \in PortTexts, path \in PathTexts, query \in QueryTexts,
            fragment \in FragmentTexts}

NuInit ==
    /\ XAtRest
    /\ PlAtRest
    /\ EpAtRest
    /\ RlAtRest
    /\ nuStage = "typed"
    /\ nuRaw \in UrlInputs
    /\ nuOnce = Null
    /\ nuTwice = Null

\* runAnalysis(): the typed text is normalized.
NuNormalize ==
    /\ nuStage = "typed"
    /\ nuOnce' = Some(NormalizeUrlInput(nuRaw))
    /\ nuStage' = IF NormalizeUrlInput(nuRaw).ok THEN "once" ELSE "refused"
    /\ UNCHANGED <<nuOthers, nuRaw, nuTwice>>

\* runAnalysis(explicitUrl) on a URL that was normalized before.
NuNormalizeAgain ==
    /\ nuStage = "once"
    /\ nuTwice' = Some(NormalizeUrlInput(Val(nuOnce).value))
    /\ nuStage' = "twice"
    /\ UNCHANGED <<nuOthers, nuRaw, nuOnce>>

NuNext == NuNormalize \/ NuNormalizeAgain

SpecNormalize == NuInit /\ [][NuNext]_vars

----------------------------------------------------------------------------
(* The time one request spends in the local pipeline *)

RDAP_TIMEOUT_MS == 5000

FETCH_TIMEOUT_MS == 8000

MIN_TIMEOUT_MS == 1000

MAX_TIMEOUT_MS == 60000

\* route.ts POST: body.timeoutMs, undefined unless a finite number, else
\* Math.max(1000, Math.min(60000, Math.round(raw))) (raw in whole ms here)
ClampTimeoutMs(raw) ==
    IF IsNull(raw) THEN Null
    ELSE Some(Max(MIN_TIMEOUT_MS, Min(MAX_TIMEOUT_MS, Val(raw))))

\* The clock moves in steps of this many ms, up to MaxElapsedMs.
DlStepMs == 1000

MaxElapsedMs == 20000

MaxHops == 2

\* fetchWithTimeout: the moment the pending fetch settles, the answer or the
\* abort, whichever is first.
SettlesAt(since, latency, timeoutMs) ==
    since + (IF IsNull(latency) THEN timeoutMs ELSE Min(Val(latency), timeoutMs))

\* fetchWithTimeout's timer fired before the answer came
Aborted(latency, timeoutMs) == IsNull(latency) \/ Val(latency) > timeoutMs

DlInit ==
    /\ CoreAtRest
    /\ HfAtRest
    /\ CcAtRest
    /\ SsAtRest
    /\ dlTimeoutMs \in {ClampTimeoutMs(raw) : raw \in {Null, Some(200), Some(4000), Some(90000)}}
    /\ dlLatency \in [age : {Some(1000), Null}, fetch : {Some(2000), Some(9000), Null},
                      ai : {Some(0), Some(3000), Null}]
    /\ dlStage = "age"
    /\ dlHopsLeft \in 0..MaxHops
    /\ dlElapsed = 0
    /\ dlSince = 0

\* Time passes while an await is pending; a timer or an answer that is due
\* settles first.
DlTick ==
    /\ dlStage \in {"age", "fetch", "ai"}
    /\ dlElapsed + DlStepMs <= MaxElapsedMs
    /\ dlStage = "age" => dlElapsed < SettlesAt(dlSince, dlLatency.age, RDAP_TIMEOUT_MS)
    /\ dlStage = "fetch" => dlElapsed < SettlesAt(dlSince, dlLatency.fetch, FETCH_TIMEOUT_MS)
    /\ dlStage = "ai" =>
          (IF IsNull(dlLatency.ai) THEN TRUE ELSE dlElapsed < dlSince + Val(dlLatency.ai))
    /\ dlElapsed' = dlElapsed + DlStepMs
    /\ UNCHANGED <<dlTimeoutMs, dlLatency, dlStage, dlHopsLeft, dlSince>>
    /\ UNCHANGED dlOthers

\* analyzeWebsite: await getDomainAgeDays(hostname) settles, with the RDAP
\* answer or with null after 5 s
DlAgeSettled ==
    /\ dlStage = "age"
    /\ dlElapsed >= SettlesAt(dlSince, dlLatency.age, RDAP_TIMEOUT_MS)
    /\ dlStage' = "fetch"
    /\ dlSince' = dlElapsed
    /\ UNCHANGED <<dlTimeoutMs, dlLatency, dlHopsLeft, dlElapsed>>
    /\ UNCHANGED dlOthers

\* fetchHomepageSignals: one fetchWithTimeout of the redirect walk settles; an
\* abort ends the walk in the catch block, a redirect starts the next fetch,
\* anything else is the page.  analyzeWebsite then awaits analyzeWithAI.
DlFetchSettled ==
    /\ dlStage = "fetch"
    /\ dlElapsed >= SettlesAt(dlSince, dlLatency.fetch, FETCH_TIMEOUT_MS)
    /\ IF ~Aborted(dlLatency.fetch, FETCH_TIMEOUT_MS) /\ dlHopsLeft > 0
       THEN dlStage' = "fetch" /\ dlHopsLeft' = dlHopsLeft - 1
       ELSE dlStage' = "ai" /\ dlHopsLeft' = dlHopsLeft
    /\ dlSince' = dlElapsed
    /\ UNCHANGED <<dlTimeoutMs, dlLatency, dlElapsed>>
    /\ UNCHANGED dlOthers

\* analyzeWebsite: await analyzeWithAI(websiteData) settles when the completion
\* call answers (at once without an API key); nothing else ends the await.
DlAiSettled ==
    /\ dlStage = "ai"
    /\ ~IsNull(dlLatency.ai)
    /\ dlElapsed >= dlSince + Val(dlLatency.ai)
    /\ dlStage' = "done"
    /\ dlSince' = dlElapsed
    /\ UNCHANGED <<dlTimeoutMs, dlLatency, dlHopsLeft, dlElapsed>>
    /\ UNCHANGED dlOthers

DlNext == DlTick \/ DlAgeSettled \/ DlFetchSettled \/ DlAiSettled

SpecDeadline == DlInit /\ [][DlNext]_vars

----------------------------------------------------------------------------
(* lib/trustAnalysis.ts: fetchHomepageSignals, one fetch at a time *)

MAX_REDIRECTS == 5

\* The URLs a walk can pass through.
HfUrls == {"a", "b", "c"}

HeaderNames == {"server", "x-frame-options"}

\* What one fetchWithTimeout can end in: a 3xx with a Location (one that
\* new URL() resolves, or one it rejects), any other response with or without
\* an HTML content type, or a rejection (network error, abort).
HfResponses ==
    [kind : {"redirect"}, status : {302}, to : HfUrls, headers : SUBSET HeaderNames, html : {FALSE}]
    \cup [kind : {"bad_location"}, status : {301}, to : {"a"}, headers : {{}}, html : {FALSE}]
    \cup [kind : {"final"}, status : {200, 304}, to : {"a"}, headers : SUBSET HeaderNames, html : BOOLEAN]
    \cup [kind : {"rejected"}, status : {0}, to : {"a"}, headers : {{}}, html : {FALSE}]

\* the catch block's return value
HfCaught(normalizedUrl) ==
    [finalUrl |-> normalizedUrl, htmlText |-> FALSE, httpStatus |-> Null,
     headers |-> {}, redirectChain |-> <<>>]

\* Variant of the loop condition that admits one more round.
WalkGoesOnAtZero(maxRedirects) == maxRedirects >= 0

\* while (maxRedirects > 0)
WalkGoesOn(maxRedirects) == maxRedirects > 0

HfInit ==
    /\ CoreAtRest
    /\ DlAtRest
    /\ CcAtRest
    /\ SsAtRest
    /\ hfStage = "walking"
    /\ hfUrl \in HfUrls
    /\ hfCurrent = hfUrl
    /\ hfLeft = MAX_REDIRECTS
    /\ hfChain = <<>>
    /\ hfStatus = Null
    /\ hfHeaders = {}
    /\ hfAsked = <<>>
    /\ hfResult = Null

\* One round of the loop: await fetchWithTimeout(currentUrl), record status and
\* headers, then follow the redirect, return the non-HTML response, or start
\* reading the body.  A followed redirect that uses up maxRedirects leaves the
\* loop and returns at once.
HfFetch ==
    /\ hfStage = "walking"
    /\ WalkGoesOn(hfLeft)
    /\ \E res \in HfResponses :
        /\ hfAsked' = Append(hfAsked, hfCurrent)
        /\ IF res.kind \in {"rejected", "bad_location"}
           THEN /\ hfStage' = "caught"
                /\ hfResult' = Some(HfCaught(hfUrl))
                /\ hfStatus' = IF res.kind = "rejected" THEN hfStatus ELSE Some(res.status)
                /\ hfChain' = IF res.kind = "rejected" THEN hfChain ELSE Append(hfChain, hfCurrent)
                /\ UNCHANGED <<hfCurrent, hfLeft, hfHeaders>>
           ELSE /\ hfStatus' = Some(res.status)
                /\ hfHeaders' = hfHeaders \cup res.headers
                /\ IF res.kind = "redirect"
                   THEN /\ hfChain' = Append(hfChain, hfCurrent)
                        /\ hfCurrent' = res.to
                        /\ hfLeft' = hfLeft - 1
                        /\ IF WalkGoesOn(hfLeft')
                           THEN hfStage' = "walking" /\ hfResult' = Null
                           ELSE /\ hfStage' = "exhausted"
                                /\ hfResult' = Some([finalUrl |-> hfCurrent', htmlText |-> FALSE,
                                                     httpStatus |-> hfStatus', headers |-> hfHeaders',
                                                     redirectChain |-> hfChain'])
                   ELSE /\ UNCHANGED <<hfChain, hfCurrent, hfLeft>>
                        /\ IF res.html
                           THEN hfStage' = "reading" /\ hfResult' = Null
                           ELSE /\ hfStage' = "no_html"
                                /\ hfResult' = Some([finalUrl |-> hfCurrent, htmlText |-> FALSE,
                                                     httpStatus |-> hfStatus', headers |-> hfHeaders',
                                                     redirectChain |-> hfChain])
    /\ UNCHANGED hfUrl
    /\ UNCHANGED hfOthers

\* await res.text(): the body arrives and is returned, or the read rejects and
\* the catch block answers.
HfReadBody ==
    /\ hfStage = "reading"
    /\ \E arrived \in BOOLEAN :
        IF arrived
        THEN /\ hfStage' = "page"
             /\ hfResult' = Some([finalUrl |-> hfCurrent, htmlText |-> TRUE,
                                  httpStatus |-> hfStatus, headers |-> hfHeaders,
                                  redirectChain |-> hfChain])
        ELSE /\ hfStage' = "caught"
             /\ hfResult' = Some(HfCaught(hfUrl))
    /\ UNCHANGED <<hfUrl, hfCurrent, hfLeft, hfChain, hfStatus, hfHeaders, hfAsked>>
    /\ UNCHANGED hfOthers

HfNext == HfFetch \/ HfReadBody

SpecFetch == HfInit /\ [][HfNext]_vars

----------------------------------------------------------------------------
(* Simultaneous requests on the process-wide maps *)

\* How many requests are in flight at once, all from one client and all about
\* one hostname, and the observation times a caller can hand to
\* upsertFlaggedFromAnalysis.
MaxConcurrent == 3

MaxObservedAtMs == 2

CcRequests == 1..MaxConcurrent

CcClient == Some("203.0.113.7")

CcHost == <<"newshop", "biz">>

\* The record request r hands to setCached.
CcRecord(r) ==
    [cacheKey |-> MakeCacheKey(CcHost), by |-> r, score |-> 30 * (r - 1),
     status |-> StatusForScore(30 * (r - 1))]

\* The part of buildFlaggedDoc's result the fallback branch reads and writes.
CcFlaggedDoc(r, observedAtMs) ==
    [hostname |-> CcHost, by |-> r, firstObservedAtMs |-> observedAtMs,
     lastObservedAtMs |-> observedAtMs, timesObserved |-> 1]

\* Variant of the fallback branch that works on the store as it was before
\* the await.
StoreReadBeforeAwait(atAwait, current) == atAwait

\* upsertFlaggedFromAnalysis: getFallbackStore() and store.get(doc.hostname)
\* run after the await, in one turn with store.set
StoreAtWrite(atAwait, current) == current

CcInit ==
    /\ CoreAtRest
    /\ DlAtRest
    /\ HfAtRest
    /\ SsAtRest
    /\ ccPc = [r \in CcRequests |-> "arrived"]
    /\ ccConfig \in {[scope |-> "screenshot_timeline", capacity2 |-> c2, refillMilli |-> 100] :
                        c2 \in {4, 6}}
    /\ ccStore = <<>>
    /\ ccCache = [k \in Hostnames |-> Null]
    /\ ccFlagged = [h \in Hostnames |-> Null]
    /\ ccChecked = [r \in CcRequests |-> Null]
    /\ ccSeen = [r \in CcRequests |-> Null]
    /\ ccDoc = [r \in CcRequests |-> Null]
    /\ ccSnap = [r \in CcRequests |-> ccFlagged]

\* The route calls checkIpRateLimit(req, config): no await inside, so the
\* bucket is read and written in this one turn.  A rejected request ends here.
CcCheck(r) ==
    /\ ccPc[r] = "arrived"
    /\ LET out == CheckIpRateLimit(ccStore, 0, CcClient, ccConfig, 0)
       IN  /\ ccStore' = out.store
           /\ ccChecked' = [ccChecked EXCEPT ![r] = Some(out.result)]
           /\ ccPc' = [ccPc EXCEPT ![r] = IF out.result.ok THEN "checked" ELSE "limited"]
    /\ UNCHANGED <<ccConfig, ccCache, ccFlagged, ccSeen, ccDoc, ccSnap>>
    /\ UNCHANGED ccOthers

\* getCached: memoryCache.get(cacheKey), then the request awaits
CcLookup(r) ==
    /\ ccPc[r] = "checked"
    /\ ccSeen' = [ccSeen EXCEPT ![r] = ccCache[MakeCacheKey(CcHost)]]
    /\ ccPc' = [ccPc EXCEPT ![r] = "looked"]
    /\ UNCHANGED <<ccConfig, ccStore, ccCache, ccFlagged, ccChecked, ccDoc, ccSnap>>
    /\ UNCHANGED ccOthers

\* setCached: memoryCache.set(record.cacheKey, record), then await getMongoDb()
CcSetCached(r) ==
    /\ ccPc[r] = "looked"
    /\ ccCache' = [ccCache EXCEPT ![CcRecord(r).cacheKey] = Some(CcRecord(r))]
    /\ ccPc' = [ccPc EXCEPT ![r] = "stored"]
    /\ UNCHANGED <<ccConfig, ccStore, ccFlagged, ccChecked, ccSeen, ccDoc, ccSnap>>
    /\ UNCHANGED ccOthers

\* upsertFlaggedFromAnalysis(response, { observedAtMs }) is called and awaits
\* getMongoDb()
CcEnterUpsert(r) ==
    /\ ccPc[r] = "stored"
    /\ \E t \in 0..MaxObservedAtMs :
        ccDoc' = [ccDoc EXCEPT ![r] = Some(CcFlaggedDoc(r, t))]
    /\ ccSnap' = [ccSnap EXCEPT ![r] = ccFlagged]
    /\ ccPc' = [ccPc EXCEPT ![r] = "entered"]
    /\ UNCHANGED <<ccConfig, ccStore, ccCache, ccFlagged, ccChecked, ccSeen>>
    /\ UNCHANGED ccOthers

\* the await is over (db is null): store.get, store.set, return
CcUpsert(r) ==
    /\ ccPc[r] = "entered"
    /\ ccFlagged' = FallbackUpsert(StoreAtWrite(ccSnap[r], ccFlagged), Val(ccDoc[r]))
    /\ ccPc' = [ccPc EXCEPT ![r] = "done"]
    /\ UNCHANGED <<ccConfig, ccStore, ccCache, ccChecked, ccSeen, ccDoc, ccSnap>>
    /\ UNCHANGED ccOthers

CcNext ==
    \E r \in CcRequests :
        CcCheck(r) \/ CcLookup(r) \/ CcSetCached(r) \/ CcEnterUpsert(r) \/ CcUpsert(r)

SpecConcurrent == CcInit /\ [][CcNext]_vars

----------------------------------------------------------------------------
(* lib/screenshotStore.ts.  The store is the Map's entries in insertion     *)
(* order; an item is its id, sizeBytes, createdAtMs and expiresAtMs.        *)

DEFAULT_TTL_MS == 1800000

MIN_TTL_MS == 5000

MAX_ITEM_BYTES == 6291456

MAX_STORE_BYTES == 67108864

MAX_STORE_ITEMS == 220

\* The position of the item with this id, or 0.
SsIndexOf(store, id) ==
    IF \E i \in 1..Len(store) : store[i].id = id
    THEN CHOOSE i \in 1..Len(store) : store[i].id = id
    ELSE 0

\* store.delete(id)
SsDelete(store, id) == SelectSeq(store, LAMBDA it : it.id # id)

\* The sizes of the entries lo..hi added up.
RECURSIVE SsSizeOf(_, _, _)
SsSizeOf(store, lo, hi) ==
    IF lo > hi THEN 0
    ELSE IF lo = hi THEN store[lo].sizeBytes
    ELSE SsSizeOf(store, lo, (lo + hi) \div 2) + SsSizeOf(store, (lo + hi) \div 2 + 1, hi)

\* pruneExpiredScreenshots: every item with now > expiresAtMs is deleted and
\* its size taken off the counter, never below 0 (taking the sizes off one by
\* one with Math.max(0, ..) gives the same as taking their sum off once).
PruneExpiredScreenshots(store, bytes, nowMs) ==
    LET kept == SelectSeq(store, LAMBDA it : ~(nowMs > it.expiresAtMs))
        gone == SelectSeq(store, LAMBDA it : nowMs > it.expiresAtMs)
    IN  [store |-> kept,
         bytes |-> IF gone = <<>> THEN bytes
                   ELSE Max(0, bytes - SsSizeOf(gone, 1, Len(gone)))]

\* Variant of pruneToLimits that removes the newest entry first.
RECURSIVE PruneToLimitsNewestFirst(_, _, _)
PruneToLimitsNewestFirst(store, bytes, incomingBytes) ==
    IF (Len(store) >= MAX_STORE_ITEMS \/ bytes + incomingBytes > MAX_STORE_BYTES)
       /\ store # <<>>
    THEN PruneToLimitsNewestFirst(SubSeq(store, 1, Len(store) - 1),
                                  Max(0, bytes - store[Len(store)].sizeBytes), incomingBytes)
    ELSE [store |-> store, bytes |-> bytes]

\* pruneToLimits: while the store is full or the incoming bytes do not fit,
\* delete the Map's first key and take its size off the local count, never
\* below 0; then write the count back.
RECURSIVE PruneToLimits(_, _, _)
PruneToLimits(store, bytes, incomingBytes) ==
    IF (Len(store) >= MAX_STORE_ITEMS \/ bytes + incomingBytes > MAX_STORE_BYTES)
       /\ store # <<>>
    THEN PruneToLimits(Tail(store), Max(0, bytes - Head(store).sizeBytes), incomingBytes)
    ELSE [store |-> store, bytes |-> bytes]

\* putScreenshot.  ttlMs: null where the caller gave none.  stored: whether the
\* data was kept.
PutScreenshot(store, bytes, id, sizeBytes, ttlMs, nowMs) ==
    LET ttl == IF IsNull(ttlMs) THEN DEFAULT_TTL_MS ELSE Max(MIN_TTL_MS, Val(ttlMs))
    IN  IF sizeBytes <= 0 \/ sizeBytes > MAX_ITEM_BYTES
        THEN [store |-> store, bytes |-> bytes, stored |-> FALSE]
        ELSE LET live == PruneExpiredScreenshots(store, bytes, nowMs)
                 room == PruneToLimits(live.store, live.bytes, sizeBytes)
             IN  [store |-> Append(room.store,
                                   [id |-> id, sizeBytes |-> sizeBytes, createdAtMs |-> nowMs,
                                    expiresAtMs |-> nowMs + ttl]),
                  bytes |-> room.bytes + sizeBytes,
                  stored |-> TRUE]

\* getScreenshot
GetScreenshot(store, bytes, id, nowMs) ==
    LET i == SsIndexOf(store, id)
    IN  IF i = 0 THEN [store |-> store, bytes |-> bytes, result |-> Null]
        ELSE IF nowMs > store[i].expiresAtMs
        THEN [store |-> SsDelete(store, id), bytes |-> Max(0, bytes - store[i].sizeBytes),
              result |-> Null]
        ELSE [store |-> store, bytes |-> bytes, result |-> Some(store[i])]

\* touchScreenshot.  maxAgeMs: null where the caller gave none (or 0).
TouchScreenshot(store, bytes, id, extendTtlMs, maxAgeMs, nowMs) ==
    LET got == GetScreenshot(store, bytes, id, nowMs)
    IN  IF IsNull(got.result) THEN got
        ELSE LET item == Val(got.result)
                 extend == Max(MIN_TTL_MS, extendTtlMs)
                 nextExpiry == nowMs + extend
                 expiresAtMs == IF IsNull(maxAgeMs) THEN nextExpiry
                                ELSE Min(item.createdAtMs + Max(extend, Val(maxAgeMs)), nextExpiry)
                 touched == [item EXCEPT !.expiresAtMs = expiresAtMs]
             IN  [store |-> Append(SsDelete(got.store, id), touched), bytes |-> got.bytes,
                  result |-> Some(touched)]

\* How long the store is followed, and the stores it starts from: empty, one
\* item short of full with small screenshots, and ten screenshots of the
\* largest size.
MaxSsOps == 4

SsPrefilled(count, sizeBytes) ==
    [i \in 1..count |-> [id |-> i, sizeBytes |-> sizeBytes, createdAtMs |-> 0,
                         expiresAtMs |-> DEFAULT_TTL_MS]]

SsStartStores ==
    {<<>>, SsPrefilled(MAX_STORE_ITEMS - 1, 1), SsPrefilled(10, MAX_ITEM_BYTES)}

\* The ids a caller asks for: the oldest and the newest entry and an id that
\* was never handed out.
SsAskedIds == {0} \cup (IF ssStore = <<>> THEN {} ELSE {ssStore[1].id, ssStore[Len(ssStore)].id})

SsInit ==
    /\ CoreAtRest
    /\ DlAtRest
    /\ HfAtRest
    /\ CcAtRest
    /\ ssStore \in SsStartStores
    /\ ssBytes = IF ssStore = <<>> THEN 0 ELSE Len(ssStore) * ssStore[1].sizeBytes
    /\ ssNow = 0
    /\ ssSeq = Len(ssStore) + 1
    /\ ssUsed = [i \in 1..Len(ssStore) |-> i]
    /\ ssLast = [op |-> "none", atMs |-> 0, result |-> Null]
    /\ ssOps = 0

\* The clock moves: by the shortest TTL, or past the default TTL.
SsTick ==
    /\ ssOps < MaxSsOps
    /\ \E step \in {MIN_TTL_MS, DEFAULT_TTL_MS + 1} : ssNow' = ssNow + step
    /\ ssOps' = ssOps + 1
    /\ UNCHANGED <<ssStore, ssBytes, ssSeq, ssUsed, ssLast>>
    /\ UNCHANGED ssOthers

SsPut ==
    /\ ssOps < MaxSsOps
    /\ \E sizeBytes \in {0, MAX_ITEM_BYTES, MAX_ITEM_BYTES + 1}, ttlMs \in {Null, Some(1000)} :
        LET out == PutScreenshot(ssStore, ssBytes, ssSeq, sizeBytes, ttlMs, ssNow)
        IN  /\ ssStore' = out.store
            /\ ssBytes' = out.bytes
            /\ ssUsed' = IF out.stored THEN Append(ssUsed, ssSeq) ELSE Append(ssUsed, 0)
            /\ ssLast' = [op |-> "put", atMs |-> ssNow, result |-> Null]
    /\ ssSeq' = ssSeq + 1
    /\ ssOps' = ssOps + 1
    /\ UNCHANGED ssNow
    /\ UNCHANGED ssOthers

SsGet ==
    /\ ssOps < MaxSsOps
    /\ \E id \in SsAskedIds :
        LET out == GetScreenshot(ssStore, ssBytes, id, ssNow)
        IN  /\ ssStore' = out.store
            /\ ssBytes' = out.bytes
            /\ ssLast' = [op |-> "get", atMs |-> ssNow, result |-> out.result]
    /\ ssOps' = ssOps + 1
    /\ UNCHANGED <<ssNow, ssSeq, ssUsed>>
    /\ UNCHANGED ssOthers

SsTouch ==
    /\ ssOps < MaxSsOps
    /\ \E id \in SsAskedIds, extendTtlMs \in {1000, DEFAULT_TTL_MS},
          maxAgeMs \in {Null, Some(MIN_TTL_MS + 1000)} :
        LET out == TouchScreenshot(ssStore, ssBytes, id, extendTtlMs, maxAgeMs, ssNow)
        IN  /\ ssStore' = out.store
            /\ ssBytes' = out.bytes
            /\ ssUsed' = IF IsNull(out.result) THEN Append(ssUsed, 0)
                         ELSE Append([ssUsed EXCEPT ![id] = ssSeq], 0)
            /\ ssLast' = [op |-> "touch", atMs |-> ssNow, result |-> out.result]
    /\ ssSeq' = ssSeq + 1
    /\ ssOps' = ssOps + 1
    /\ UNCHANGED ssNow
    /\ UNCHANGED ssOthers

SsPrune ==
    /\ ssOps < MaxSsOps
    /\ LET out == PruneExpiredScreenshots(ssStore, ssBytes, ssNow)
       IN  /\ ssStore' = out.store
           /\ ssBytes' = out.bytes
    /\ ssLast' = [op |-> "prune", atMs |-> ssNow, result |-> Null]
    /\ ssOps' = ssOps + 1
    /\ UNCHANGED <<ssNow, ssSeq, ssUsed>>
    /\ UNCHANGED ssOthers

SsNext == SsTick \/ SsPut \/ SsGet \/ SsTouch \/ SsPrune

SpecScreenshots == SsInit /\ [][SsNext]_vars

----------------------------------------------------------------------------
(* Properties of the pipeline *)

PlDone == plStage = "done"

PlJudged == plStage \in {"done", "threw"}

PlWellKnown == RegistrableDomainGuess(plUrl.host) \in WELL_KNOWN_DOMAINS

\* Non-empty homepage HTML came back.
PlHtmlAvailable == plFetch.htmlText.kind = "text"

PlAgeKnown == Len(plAge) = 1

PlAiPresent == Len(plAi) = 1

\* The site is not well-known and its HTML or its domain age is missing.
PlLimited == ~PlWellKnown /\ (~PlHtmlAvailable \/ ~PlAgeKnown)

\* C1: every returned score is an integer in [0,100] and the status is the
\* threshold mapping of it: >= 75 Low Risk, 45..74 Proceed with Caution, < 45 High Risk.
C1_ScoreInRangeStatusByThreshold ==
    PlDone =>
        LET r == plResult[1]
        IN  /\ r.score \in 0..100
            /\ (r.score >= 75 => r.status = "Low Risk")
            /\ (r.score >= 45 /\ r.score <= 74 => r.status = "Proceed with Caution")
            /\ (r.score <= 44 => r.status = "High Risk Indicators Detected")

\* An AI-blended result that lands exactly on 74.
C1_Witness == PlDone /\ PlAiPresent /\ plResult[1].score = 74

\* C2: with an AI result of confidence "high" the final score is the AI score,
\* whatever the heuristic score.
C2_HighConfidenceTakesAiScore ==
    (PlDone /\ PlAiPresent /\ plAi[1].confidenceLevel = "high")
        => /\ plResult[1].score = plAi[1].aiScore
           /\ plAi[1].aiScore = Max(0, Min(100, (plRaw.score2 + 1) \div 2))

\* High confidence, and a heuristic score that differs from the AI score by 30 or more.
C2_Witness ==
    /\ PlDone /\ PlAiPresent /\ plAi[1].confidenceLevel = "high"
    /\ plHeuristic >= plAi[1].aiScore + 30

\* C3: without an AI result the final score is the heuristic score clamped to [0,100].
C3_NoAiKeepsHeuristic ==
    (PlDone /\ ~PlAiPresent)
        => plResult[1].score = (IF plHeuristic > 100 THEN 100
                                ELSE IF plHeuristic < 0 THEN 0 ELSE plHeuristic)

\* No AI result and a heuristic score the clamp has to cut.
C3_Witness == PlDone /\ ~PlAiPresent /\ plHeuristic > 100

\* m is x/4 rounded half up, x/2 rounded half up.
IsRoundOfQuarters(m, x) == 4 * m - 2 <= x /\ x < 4 * m + 2

IsRoundOfHalves(m, x) == 2 * m - 1 <= x /\ x < 2 * m + 1

ClampedTo100(n) == IF n > 100 THEN 100 ELSE IF n < 0 THEN 0 ELSE n

\* C4: with an AI result of confidence "medium" the final score is
\* clamp(round(0.25*heuristic + 0.75*aiScore)); with "low" or a confidence that is
\* missing it is clamp(round(0.5*heuristic + 0.5*aiScore)).
C4_BlendByConfidence ==
    (PlDone /\ PlAiPresent /\ plAi[1].confidenceLevel # "high")
        => \E m \in 0..200 :
            /\ plResult[1].score = ClampedTo100(m)
            /\ IF plAi[1].confidenceLevel = "medium"
               THEN IsRoundOfQuarters(m, plHeuristic + 3 * plAi[1].aiScore)
               ELSE IsRoundOfHalves(m, plHeuristic + plAi[1].aiScore)

\* A missing confidence, and a 50/50 blend that falls on a half.
C4_Witness ==
    /\ PlDone /\ PlAiPresent /\ plAi[1].confidenceLevel = "absent"
    /\ (plHeuristic + plAi[1].aiScore) % 2 = 1
    /\ plHeuristic # plAi[1].aiScore + 1

\* C5: for a site that is not well-known and lacks HTML or a domain age, every AI
\* result returned has aiScore <= 65 and a confidence other than "high" (a "high"
\* becomes "medium"); otherwise score and confidence come back without the cap.
C5_GuardrailCapsLimitedData ==
    (PlJudged /\ PlAiPresent)
        => LET uncapped == ClampedTo100((plRaw.score2 + 1) \div 2)
           IN  IF PlLimited
               THEN /\ plAi[1].aiScore <= 65
                    /\ plAi[1].aiScore = (IF uncapped > 65 THEN 65 ELSE uncapped)
                    /\ plAi[1].confidenceLevel # "high"
                    /\ plAi[1].confidenceLevel =
                         (IF plRaw.confidenceLevel = "high" THEN "medium"
                          ELSE plRaw.confidenceLevel)
               ELSE /\ plAi[1].aiScore = uncapped
                    /\ plAi[1].confidenceLevel = plRaw.confidenceLevel

\* The AI answered 75 with high confidence about an unknown site whose HTML is missing.
C5_Witness ==
    /\ PlJudged /\ PlAiPresent /\ PlLimited /\ ~PlHtmlAvailable /\ PlAgeKnown
    /\ plRaw.confidenceLevel = "high" /\ plRaw.score2 = 150

\* C6: a site that is not well-known and lacks HTML or a domain age never gets
\* "Low Risk" once an AI result is returned.
C6_LimitedDataNeverLowRisk ==
    (PlDone /\ PlAiPresent /\ PlLimited) => plResult[1].status # "Low Risk"

\* C7: a site that is not well-known, younger than 90 days and without HTML is never
\* "Low Risk", whatever the scheme, the redirect, the headers and the AI result.
C7_NewDomainNoHtmlNeverLowRisk ==
    (PlDone /\ ~PlWellKnown /\ PlAgeKnown /\ ~PlHtmlAvailable /\ plAge[1] < 90)
        => plResult[1].status \in {"Proceed with Caution", "High Risk Indicators Detected"}

\* Such a site asked for over http, redirected to https, all headers set, AI present.
C7_Witness ==
    /\ PlDone /\ ~PlWellKnown /\ PlAgeKnown /\ ~PlHtmlAvailable /\ plAge[1] < 90
    /\ plUrl.protocol = "http:" /\ plFetch.finalUrl.protocol = "https:"
    /\ plFetch.headers = ScoringHeaders /\ PlAiPresent

\* C8 as stated: no AI configured, final protocol HTTPS, the homepage HTML contains
\* at least 3 business-info terms, domain age >= 365 days: score >= 75, "Low Risk".
C8_ThreeTermsInHtmlIsLowRisk ==
    (/\ PlDone /\ plRaw.outcome = "no_key"
     /\ plFetch.finalUrl.protocol = "https:"
     /\ PlHtmlAvailable
     /\ Cardinality((plFetch.htmlText.visible \cup plFetch.htmlText.scripted)
                    \cap BusinessNeedles) >= 3
     /\ PlAgeKnown /\ plAge[1] >= 365)
        => plResult[1].score >= 75 /\ plResult[1].status = "Low Risk"

\* C8 amended: the same with at least 3 business-info terms in the homepage text
\* that is left once script and style blocks are removed.
C8_ThreeVisibleTermsIsLowRisk ==
    (/\ PlDone /\ plRaw.outcome = "no_key"
     /\ plFetch.finalUrl.protocol = "https:"
     /\ PlHtmlAvailable
     /\ Cardinality(plFetch.htmlText.visible \cap BusinessNeedles) >= 3
     /\ PlAgeKnown /\ plAge[1] >= 365)
        => plResult[1].score >= 75 /\ plResult[1].status = "Low Risk"

\* Three visible terms, a medical term, no support term, no header, not well-known:
\* the lowest score the amended claim covers.
C8_Witness ==
    /\ PlDone /\ plRaw.outcome = "no_key" /\ ~PlWellKnown
    /\ plFetch.finalUrl.protocol = "https:"
    /\ plFetch.htmlText.visible = {"about", "company", "privacy", "cure"}
    /\ PlAgeKnown /\ plAge[1] >= 365
    /\ plFetch.headers = {}
    /\ plResult[1].score = 83

----------------------------------------------------------------------------
(* Properties of the endpoint and the flagged-sites store *)

\* The flagged-sites store in use: the fallback map without MongoDB, else the collection.
FlaggedStoreInUse == IF cfg.mongo = "unset" THEN flaggedFallback ELSE dbFlagged

\* The flag predicate, as the specification words it.
FlagPredicate(r) ==
    \/ r.score < 45
    \/ r.status = "High Risk Indicators Detected"
    \/ /\ Len(r.agentSignals.aiJudgment) = 1
       /\ r.agentSignals.aiJudgment[1].verdict \in {"suspicious", "likely_deceptive"}

\* C9: a request that is answered with an analysis writes the flagged-sites store
\* exactly when the response satisfies the flag predicate: a response that does
\* not satisfy it leaves both stores as they were, and one that does (and names
\* a hostname) leaves a record of this observation under the response's
\* hostname, on the local, delegated and cache-hit paths alike.
C9_StoreWrittenExactlyWhenFlagged ==
    [][(served' = served + 1 /\ last'.kind = "ok") =>
        LET r == last'.response[1]
            written == IF cfg.mongo = "unset" THEN flaggedFallback' ELSE dbFlagged'
        IN  IF FlagPredicate(r)
            THEN r.normalizedUrl.host # <<>> =>
                    /\ Len(written[r.normalizedUrl.host]) = 1
                    /\ written[r.normalizedUrl.host][1].lastObservedAtMs = now
                    /\ written[r.normalizedUrl.host][1].status = r.status
            ELSE flaggedFallback' = flaggedFallback /\ dbFlagged' = dbFlagged]_vars

\* C10: after n >= 1 flag-worthy upserts of a hostname the record in the store in
\* use has timesObserved = n, firstObservedAtMs of the first upsert,
\* lastObservedAtMs of the latest, and the latest snapshot's score, status,
\* issues, findings and evidence.
C10_UpsertCounting ==
    \A h \in Hostnames :
        Len(upserts[h]) >= 1 =>
            LET n == Len(upserts[h])
                latest == upserts[h][n]
                rec == FlaggedStoreInUse[h]
            IN  /\ Len(rec) = 1
                /\ rec[1].timesObserved = n
                /\ rec[1].firstObservedAtMs = upserts[h][1].firstObservedAtMs
                /\ rec[1].lastObservedAtMs = latest.lastObservedAtMs
                /\ rec[1].score = latest.score
                /\ rec[1].status = latest.status
                /\ rec[1].issues = latest.issues
                /\ rec[1].findings = latest.findings
                /\ rec[1].evidence = latest.evidence


\* The hostname the latest answered analysis was about, or <<>>.
LastHost == IF last.kind = "ok" THEN last.response[1].normalizedUrl.host ELSE <<>>

\* C11 as stated: a hostname has a record in a flagged-sites store only if the
\* latest analysis of that hostname met the flag predicate.
C11_StoredOnlyIfLatestFlagWorthy ==
    (/\ LastHost # <<>>
     /\ (Len(flaggedFallback[LastHost]) = 1 \/ Len(dbFlagged[LastHost]) = 1))
        => FlagPredicate(last.response[1])

\* C11, amended: a hostname has a record in a flagged-sites store only if some
\* analysis of it met the flag predicate, and the record is the snapshot of the
\* most recent flag-worthy one; records are never removed, so a later analysis
\* that is not flag-worthy leaves the record in place.
C11_StoredIsLatestFlagWorthySnapshot ==
    \A h \in Hostnames :
        \A rec \in {flaggedFallback[h], dbFlagged[h]} :
            Len(rec) = 1 =>
                /\ Len(upserts[h]) >= 1
                /\ \/ rec[1].score < 45
                   \/ rec[1].status = "High Risk Indicators Detected"
                   \/ rec[1].aiVerdict \in {<<"suspicious">>, <<"likely_deceptive">>}
                /\ rec[1].hostname = h
                /\ rec[1].lastObservedAtMs = upserts[h][Len(upserts[h])].lastObservedAtMs
                /\ rec[1].score = upserts[h][Len(upserts[h])].score
                /\ rec[1].status = upserts[h][Len(upserts[h])].status
                /\ rec[1].issues = upserts[h][Len(upserts[h])].issues

\* A hostname was flagged, and its latest analysis, later, is not flag-worthy:
\* the record is still in the store.
C11_Witness ==
    /\ LastHost # <<>>
    /\ ~FlagPredicate(last.response[1])
    /\ Len(flaggedFallback[LastHost]) = 1
    /\ flaggedFallback[LastHost][1].lastObservedAtMs < last.atMs


----------------------------------------------------------------------------
(* Properties of the rate limiter *)

\* The checks k..i of client c were made at one instant, the first of them
\* creating the bucket.
RlBurst(c, k, i) ==
    /\ k <= i
    /\ rlLog[c][k].created
    /\ \A m \in k..i : rlLog[c][m].atMs = rlLog[c][k].atMs

\* C12: of C+1 checks made at one instant by one client in one scope, starting
\* with no bucket, checks 1..C are accepted and check C+1 is rejected with
\* retryAfterSeconds >= 1, C being the bucket's capacity.
C12_BurstAcceptsCapacityThenRejects ==
    \A c \in RlClients :
        \A k \in 1..Len(rlLog[c]), i \in 1..Len(rlLog[c]) :
            RlBurst(c, k, i) =>
                /\ i - k + 1 <= Max(1, rlConfig.capacity2 \div 2) => rlLog[c][i].ok
                /\ i - k + 1 = Max(1, rlConfig.capacity2 \div 2) + 1 =>
                        ~rlLog[c][i].ok /\ rlLog[c][i].retryAfterSeconds >= 1

\* Capacity 4, refill 0.1/s: five checks at one instant, the fifth rejected.
C12_Witness ==
    \E c \in RlClients :
        /\ rlConfig.capacity2 = 8 /\ rlConfig.refillMilli = 100
        /\ Len(rlLog[c]) = 5
        /\ RlBurst(c, 1, 5)
        /\ ~rlLog[c][5].ok

\* Accepted checks among the checks i..j of client c.
RlAccepted(c, i, j) == Cardinality({m \in i..j : rlLog[c][m].ok})

\* Every bucket holds between 0 and capacity tokens.
RlTokensInRange ==
    \A k \in DOMAIN rlStore :
        rlStore[k].tokens >= 0 /\ rlStore[k].tokens <= CapacityOf(rlConfig) * TokenUnit

\* Each check after the first finds the tokens the previous one left plus
\* elapsed-seconds times the refill rate, capped at capacity; it is accepted
\* exactly when that is a whole token, and then takes exactly one.
RlRefillThenDeductOne ==
    \A c \in RlClients :
        \A m \in 1..Len(rlLog[c]) :
            IF rlLog[c][m].created
            THEN rlLog[c][m].ok /\ rlLog[c][m].tokens = (CapacityOf(rlConfig) - 1) * TokenUnit
            ELSE LET before == rlLog[c][m - 1]
                     found == Min(CapacityOf(rlConfig) * TokenUnit,
                                  before.tokens
                                    + (rlLog[c][m].atMs - before.atMs) * RefillMilliOf(rlConfig))
                 IN  /\ rlLog[c][m].ok = (found >= TokenUnit)
                     /\ rlLog[c][m].tokens = IF rlLog[c][m].ok THEN found - TokenUnit ELSE found

\* C13 as stated: tokens stay within [0, capacity], and the accepted checks of
\* one key in any time window of length T number at most
\* capacity + refillPerSecond * T.
C13_AcceptedWithinCapacityPlusRefill ==
    /\ RlTokensInRange
    /\ \A c \in RlClients :
        \A i \in 1..Len(rlLog[c]), j \in 1..Len(rlLog[c]) :
            i <= j =>
                RlAccepted(c, i, j) * TokenUnit
                    <= CapacityOf(rlConfig) * TokenUnit
                        + (rlLog[c][j].atMs - rlLog[c][i].atMs) * RefillMilliOf(rlConfig)

\* C13, amended: tokens stay within [0, capacity]; refill is elapsed-seconds times
\* the rate capped at capacity and an accepted check takes exactly one token;
\* and in any time window of length T in which the key's bucket is not pruned
\* and created again, its accepted checks number at most
\* capacity + refillPerSecond * T.
C13_AcceptedWithinBoundUnlessPruned ==
    /\ RlTokensInRange
    /\ RlRefillThenDeductOne
    /\ \A c \in RlClients :
        \A i \in 1..Len(rlLog[c]), j \in 1..Len(rlLog[c]) :
            (i <= j /\ \A m \in (i + 1)..j : ~rlLog[c][m].created) =>
                RlAccepted(c, i, j) * TokenUnit
                    <= CapacityOf(rlConfig) * TokenUnit
                        + (rlLog[c][j].atMs - rlLog[c][i].atMs) * RefillMilliOf(rlConfig)

\* A client is rejected, waits, is accepted on the refill, and is rejected again.
C13_Witness ==
    \E c \in RlClients :
        \E m \in 2..Len(rlLog[c]) :
            /\ m + 1 <= Len(rlLog[c])
            /\ ~rlLog[c][m - 1].ok
            /\ rlLog[c][m].ok /\ ~rlLog[c][m].created
            /\ rlLog[c][m].atMs > rlLog[c][m - 1].atMs
            /\ ~rlLog[c][m + 1].ok


----------------------------------------------------------------------------
(* Properties of the endpoint and the rate limiter together *)

\* C14: a request that reaches an expensive downstream call has first passed a
\* rate-limit check for its scope and client.  For the analyze endpoint: once a
\* request was answered by the agent or by the local pipeline (the AI judge), the
\* bucket table holds a bucket of the "analyze" scope.
C14_AnalyzePassesRateLimitFirst ==
    last.path \in {"agent", "local"} =>
        \E key \in DOMAIN rlStore : key[1] = "analyze"


\* The cache record and the response carry the same analysis.
SameAnalysis(record, response) ==
    /\ record.normalizedUrl = response.normalizedUrl
    /\ record.score = response.score
    /\ record.status = response.status
    /\ record.explainability = response.explainability
    /\ record.aiAnalysis = response.aiAnalysis

\* The memory-cache entry under the key of the request's own hostname.
EntryOfRequest(req) == memoryCache[ValidateRequest(req).cacheKey]

\* C15: with caching enabled, a force=true request that gets an analysis is never
\* answered from the cache: the analysis is fresh (delegated or local), says
\* cached=false, and afterwards the cache entry under the request's hostname key
\* is the record of that analysis.
C15_ForcedRefreshReplacesRequestEntry ==
    (cfg.enableCache /\ last.kind = "ok" /\ last.request.force) =>
        /\ last.path \in {"agent", "local"}
        /\ ~Val(last.response).cached
        /\ ~IsNull(EntryOfRequest(last.request))
        /\ SameAnalysis(Val(EntryOfRequest(last.request)), Val(last.response))


\* The records getCached can see under a key: the memory entry and the collection.
RecordsUnder(cacheKey) ==
    (IF IsNull(memoryCache[cacheKey]) THEN {} ELSE {Val(memoryCache[cacheKey])})
    \cup {d \in dbAnalyses : d.cacheKey = cacheKey}

\* Every record of either tier expires 24 hours after its analysis.
ExpiryIsAnalysisPlusTtl ==
    /\ \A k \in Hostnames :
        ~IsNull(memoryCache[k]) =>
            Val(memoryCache[k]).expireAtMs = Val(memoryCache[k]).analyzedAtMs + CACHE_TTL_MS
    /\ \A d \in dbAnalyses : d.expireAtMs = d.analyzedAtMs + CACHE_TTL_MS

\* The request just answered was answered with cached=true.
AnsweredFromCache ==
    /\ served' = served + 1
    /\ last'.kind = "ok"
    /\ Val(last'.response).cached

\* The request just answered met an expired memory entry and a live durable one.
ExpiredMemoryLiveDurable ==
    /\ served' = served + 1
    /\ cfg.enableCache
    /\ ValidateRequest(last'.request).ok
    /\ ~last'.request.force
    /\ ~IsNull(EntryOfRequest(last'.request))
    /\ Val(EntryOfRequest(last'.request)).expireAtMs <= now
    /\ FindNewestLive(dbAnalyses, ValidateRequest(last'.request).cacheKey, now) # {}

\* C16: a cached=true response is built only from a record of the request's key
\* whose expireAtMs is strictly greater than the time of the read, expireAtMs
\* being analyzedAtMs + 24h in both tiers; and a request that meets an expired
\* memory entry and a live durable one, if it is answered, is answered from the
\* live durable record.
C16_CachedOnlyBeforeExpiry ==
    /\ []ExpiryIsAnalysisPlusTtl
    /\ [][AnsweredFromCache =>
            /\ last'.path = "cache"
            /\ \E r \in RecordsUnder(ValidateRequest(last'.request).cacheKey) :
                /\ r.expireAtMs > now
                /\ SameAnalysis(r, Val(last'.response))
                /\ Val(last'.response).analyzedAt = Some(r.analyzedAtMs)]_vars
    /\ [][(ExpiredMemoryLiveDurable /\ last'.kind = "ok") =>
            /\ Val(last'.response).cached
            /\ \E r \in FindNewestLive(dbAnalyses,
                                       ValidateRequest(last'.request).cacheKey, now) :
                SameAnalysis(r, Val(last'.response))]_vars

\* A request was answered from the durable tier past an expired memory entry.
C16_Witness ==
    /\ last.kind = "ok"
    /\ last.path = "cache"
    /\ ~IsNull(EntryOfRequest(last.request))
    /\ Val(EntryOfRequest(last.request)).expireAtMs <= last.atMs
    /\ Val(last.response).analyzedAt = Some(SeedRecord.analyzedAtMs)


\* No record of either tier holds a screenshot reference.
NoCachedScreenshot ==
    /\ \A k \in Hostnames :
        ~IsNull(memoryCache[k]) => IsNull(Val(memoryCache[k]).agentSignals.screenshot)
    /\ \A d \in dbAnalyses : IsNull(d.agentSignals.screenshot)

\* The request just answered got an analysis that carries a screenshot.
AnsweredWithScreenshot ==
    /\ served' = served + 1
    /\ last'.kind = "ok"
    /\ ~IsNull(Val(last'.response).agentSignals.screenshot)

\* C17: no record of the memory cache or of the durable cache holds a screenshot
\* reference, and attaching a fresh screenshot to a response does not modify a
\* stored record: a cache hit leaves both tiers as they were, and a fresh
\* analysis stores its record with the response's signals less the screenshot.
C17_NoScreenshotInCache ==
    /\ []NoCachedScreenshot
    /\ [][(AnsweredWithScreenshot /\ last'.path = "cache") =>
            UNCHANGED <<memoryCache, dbAnalyses>>]_vars
    /\ [][(AnsweredWithScreenshot /\ last'.path # "cache") =>
            \A r \in ({Val(memoryCache'[k]) : k \in {h \in Hostnames :
                                                      /\ memoryCache'[h] # memoryCache[h]}}
                      \cup (dbAnalyses' \ dbAnalyses)) :
                r.agentSignals = [Val(last'.response).agentSignals
                                      EXCEPT !.screenshot = Null]]_vars

\* A cache hit on a record of the Python agent was answered with a fresh
\* screenshot, the record still holding none.
C17_Witness ==
    /\ last.kind = "ok"
    /\ last.path = "cache"
    /\ Val(last.response).agentSignals.agent = "python"
    /\ Val(last.response).agentSignals.screenshot = Some("captured")
    /\ ~IsNull(EntryOfRequest(last.request))
    /\ IsNull(Val(EntryOfRequest(last.request)).agentSignals.screenshot)
    /\ \E d \in dbAnalyses : d = Val(EntryOfRequest(last.request))


----------------------------------------------------------------------------
(* Properties of normalizeUrlInput *)

\* s starts with the characters of prefix.
StartsWith(s, prefix) == Len(s) >= Len(prefix) /\ Take(s, Len(prefix)) = prefix

\* C18: for every input normalizeUrlInput accepts, with or without a scheme,
\* normalizing the result again returns the same string; the result has scheme
\* http or https, no fragment, and a hostname that contains a dot.
C18_NormalizeIsIdempotent ==
    /\ nuStage = "twice" => nuTwice = nuOnce
    /\ nuStage \in {"once", "twice"} =>
        LET result == Val(nuOnce).value
        IN  /\ Val(nuOnce).ok
            /\ \/ StartsWith(result, HttpsScheme \o <<":", "/", "/">>)
               \/ StartsWith(result, HttpScheme \o <<":", "/", "/">>)
            /\ \A i \in 1..Len(result) : result[i] # "#"
            /\ \E i \in 1..Len(Val(ParseUrl(result)).hostname) :
                    Val(ParseUrl(result)).hostname[i] = "."

\* A padded input without a scheme, in capitals, with a dot segment and a
\* fragment, was normalized twice.
C18_Witness ==
    /\ nuStage = "twice"
    /\ ~HasScheme(Trim(nuRaw))
    /\ nuRaw[1] = " "
    /\ \E i \in 1..Len(nuRaw) : nuRaw[i] = "#"
    /\ \E i \in 1..Len(nuRaw) : nuRaw[i] = "A"
    /\ Val(nuTwice).ok
    /\ Val(nuTwice).value = <<"h", "t", "t", "p", "s", ":", "/", "/", "a", ".", "b", "/">>


\* Invalid input: a body that is no JSON or holds no object, a missing or empty
\* url, a url that does not parse, a scheme other than http(s), a hostname
\* without a dot.
InvalidInput(req) ==
    \/ req.body # "object"
    \/ req.url \in {BlankUrl, BadUrl}
    \/ req.url.protocol \notin {"http:", "https:"}
    \/ Len(req.url.host) < 2

\* C19: an analyze request with invalid input is answered with a 4xx error and
\* nothing else happens for it: no function of the cache, the agent, the local
\* pipeline or the flagged store is called, and both cache tiers and both
\* flagged stores stay as they were.
C19_InvalidInputRejectedUntouched ==
    [][(served' = served + 1 /\ InvalidInput(last'.request)) =>
            /\ last'.kind = "rejected"
            /\ last'.error # ""
            /\ last'.calls = {}
            /\ UNCHANGED <<memoryCache, dbAnalyses, flaggedFallback, dbFlagged,
                           upserts>>]_vars

\* C20: a request that passed input validation is answered with an analysis
\* whatever the agent, the registry lookup, the homepage fetch (any redirect
\* hop, the hop limit, any Location target) and the AI call did; here with no
\* durable store configured, so that only those four are in play.
C20_ValidatedRequestGetsAnalysis ==
    (cfg.mongo = "unset" /\ last.kind # "none" /\ ~InvalidInput(last.request)) =>
        last.kind = "ok"


\* C21: a failure of the durable store (connecting, reading or writing the
\* cache, creating indexes, upserting a flagged record) never fails a request:
\* a request that passed validation does not end in an unhandled rejection.
C21_DurableFailureNeverFailsRequest ==
    (last.kind # "none" /\ ~InvalidInput(last.request)) => last.kind # "crash"


----------------------------------------------------------------------------
(* Properties of the request deadline *)

\* C22: the per-request deadline (timeoutMs clamped to [1000, 60000]) is
\* enforced end to end: the pipeline is never found waiting on the AI call
\* after the request's deadline has passed.
C22_NoAiWaitPastDeadline ==
    (dlStage = "ai" /\ ~IsNull(dlTimeoutMs)) => dlElapsed <= Val(dlTimeoutMs)


----------------------------------------------------------------------------
(* Properties of the AI result *)

\* C23: the AI output is trusted all or nothing: every non-null result of
\* analyzeWithAI has an integer aiScore in [0,100] and a confidence that is
\* one of high, medium, low; anything else was discarded as null.
C23_NonNullAiResultIsWellFormed ==
    ~IsNull(plAi) =>
        /\ Val(plAi).aiScore \in 0..100
        /\ Val(plAi).confidenceLevel \in {"high", "medium", "low"}


----------------------------------------------------------------------------
(* Properties of the homepage fetcher *)

----------------------------------------------------------------------------
(* Properties of requests for different hostnames *)

\* C25: requests for different hostnames are independent: handling a request
\* for one hostname leaves the cache entries (both tiers) and the flagged
\* records (both stores) of every other hostname as they were.
C25_OtherHostnamesUntouched ==
    [][(served' = served + 1 /\ ~InvalidInput(last'.request)) =>
          \A h \in Hostnames \ {last'.request.url.host} :
              /\ memoryCache'[MakeCacheKey(h)] = memoryCache[MakeCacheKey(h)]
              /\ {d \in dbAnalyses' : d.cacheKey = MakeCacheKey(h)}
                    = {d \in dbAnalyses : d.cacheKey = MakeCacheKey(h)}
              /\ flaggedFallback'[h] = flaggedFallback[h]
              /\ dbFlagged'[h] = dbFlagged[h]]_vars


----------------------------------------------------------------------------
(* Properties of simultaneous requests *)

\* The requests that have got as far as one of the given positions.
CcAt(positions) == {r \in CcRequests : ccPc[r] \in positions}

CcAccepted == {r \in CcRequests : ~IsNull(ccChecked[r]) /\ Val(ccChecked[r]).ok}

\* C26: under requests that interleave at their await points no update of a
\* process-wide map is lost: the bucket holds the capacity less one token per
\* accepted check (the clock standing still), the flagged record's
\* timesObserved is the number of upserts made, and a cache read returned
\* nothing or the whole record of one request.
C26_NoLostUpdateNoTornRead ==
    /\ LET key == RateLimitKey(ccConfig, CcClient)
       IN  IF CcAt({"arrived"}) = CcRequests THEN key \notin DOMAIN ccStore
           ELSE /\ key \in DOMAIN ccStore
                /\ ccStore[key].tokens =
                      (CapacityOf(ccConfig) - Cardinality(CcAccepted)) * TokenUnit
                /\ Cardinality(CcAccepted) =
                      Min(CapacityOf(ccConfig), Cardinality(CcRequests \ CcAt({"arrived"})))
    /\ IF CcAt({"done"}) = {} THEN IsNull(ccFlagged[CcHost])
       ELSE /\ ~IsNull(ccFlagged[CcHost])
            /\ Val(ccFlagged[CcHost]).timesObserved = Cardinality(CcAt({"done"}))
    /\ \A r \in CcRequests :
          IsNull(ccSeen[r]) \/ \E q \in CcRequests : Val(ccSeen[r]) = CcRecord(q)

\* Three requests in flight at once: the third check was rejected, the two
\* accepted requests both awaited before either wrote the flagged record, and
\* one of them read the other's cache record.
C26_Witness ==
    /\ Cardinality(CcAccepted) = 2
    /\ CcAt({"limited"}) # {}
    /\ Cardinality(CcAt({"done"})) = 2
    /\ \E r \in CcAt({"done"}) : IsNull(ccSnap[r][CcHost]) /\ Val(ccFlagged[CcHost]).by = r
                                   /\ Val(ccFlagged[CcHost]).timesObserved = 2
    /\ \E r \in CcRequests : ~IsNull(ccSeen[r]) /\ Val(ccSeen[r]).by # r


----------------------------------------------------------------------------
(* Properties of the score and status the endpoint hands out *)

\* C27: every response of the endpoint and every record in either cache tier,
\* whichever path produced it (local, agent, cache), has an integer score in
\* [0,100] and the status that the 75/45 thresholds give that score.
C27_ServedAndCachedScoreMatchesStatus ==
    /\ last.kind = "ok" =>
          /\ Val(last.response).score \in 0..100
          /\ Val(last.response).status = StatusForScore(Val(last.response).score)
    /\ \A k \in Hostnames : \A rec \in RecordsUnder(MakeCacheKey(k)) :
          /\ rec.score \in 0..100
          /\ rec.status = StatusForScore(rec.score)


----------------------------------------------------------------------------
(* Properties of the flagged record's observation times *)

\* C28: after any sequence of upserts with any observation timestamps, every
\* flagged-store record has firstObservedAtMs <= lastObservedAtMs and
\* timesObserved >= 1.
C28_FirstObservedNotAfterLast ==
    \A h \in Hostnames :
        ~IsNull(ccFlagged[h]) =>
            /\ Val(ccFlagged[h]).firstObservedAtMs <= Val(ccFlagged[h]).lastObservedAtMs
            /\ Val(ccFlagged[h]).timesObserved >= 1


----------------------------------------------------------------------------
(* Properties of the retry-after hint *)

\* C29: a rejected check takes no token from the bucket, and when the client's
\* next check of that scope comes retryAfterSeconds or more after the
\* rejection, it is accepted.
C29_RetryAfterIsSufficient ==
    \A c \in RlClients : \A i \in 1..Len(rlLog[c]) :
        ~rlLog[c][i].ok =>
            /\ i > 1
            /\ ~rlLog[c][i].created
            /\ rlLog[c][i].tokens >= rlLog[c][i - 1].tokens
            /\ rlLog[c][i].retryAfterSeconds >= 1
            /\ (/\ i < Len(rlLog[c])
                /\ rlLog[c][i + 1].atMs >= rlLog[c][i].atMs + 1000 * rlLog[c][i].retryAfterSeconds)
                  => rlLog[c][i + 1].ok

\* A check was rejected with a hint of more than a second; the client's next
\* check, after that long, found the same bucket and was accepted.
C29_Witness ==
    \E c \in RlClients : \E i \in 1..(Len(rlLog[c]) - 1) :
        /\ ~rlLog[c][i].ok
        /\ rlLog[c][i].retryAfterSeconds > 1
        /\ rlLog[c][i + 1].atMs >= rlLog[c][i].atMs + 1000 * rlLog[c][i].retryAfterSeconds
        /\ ~rlLog[c][i + 1].created
        /\ rlLog[c][i + 1].ok


----------------------------------------------------------------------------
(* Properties of the screenshot store *)

\* The byte counter is the sum of the stored sizes, the store is within its
\* item and byte limits and lists its items from the least recently inserted
\* or touched to the most recently, and getScreenshot returned no item that
\* had expired.
SsAccounted ==
    /\ ssBytes = SsSizeOf(ssStore, 1, Len(ssStore))
    /\ Len(ssStore) <= 220
    /\ ssBytes <= 64 * 1024 * 1024
    /\ \A i \in 1..(Len(ssStore) - 1) :
          ssUsed[ssStore[i].id] < ssUsed[ssStore[i + 1].id]
    /\ (ssLast.op = "get" /\ ~IsNull(ssLast.result)) =>
          Val(ssLast.result).expiresAtMs >= ssLast.atMs

\* An item that putScreenshot removed before it expired was less recently
\* inserted or touched than every item it kept.
SsEvictsOldestFirst ==
    ssLast'.op = "put" =>
        LET idsAfter == {ssStore'[x].id : x \in 1..Len(ssStore')}
            evicted == {i \in 1..Len(ssStore) :
                          ssStore[i].id \notin idsAfter /\ ~(ssNow > ssStore[i].expiresAtMs)}
            kept == {j \in 1..Len(ssStore) : ssStore[j].id \in idsAfter}
        IN  \A i \in evicted : \A j \in kept :
                ssUsed[ssStore[i].id] < ssUsed[ssStore[j].id]

\* C30: after any sequence of putScreenshot, getScreenshot, touchScreenshot and
\* pruneExpiredScreenshots calls the byte counter equals the sum of the stored
\* sizes, the store holds at most 220 items and 64 MB, eviction removes the
\* least recently inserted or touched items first, and getScreenshot never
\* returns an item whose expiresAtMs is in the past.
C30_ScreenshotStoreAccounting == []SsAccounted /\ [][SsEvictsOldestFirst]_vars

\* A full store from which a put evicted the second-oldest item, the oldest
\* having been touched before.
C30_Witness ==
    /\ Len(ssStore) = MAX_STORE_ITEMS
    /\ ssStore[1].id = 3
    /\ SsIndexOf(ssStore, 1) # 0
    /\ ssLast.op = "put"


====
